---- MODULE Spec2Model ----
(***************************************************************************)
(* The dependency-manifest loader of the host: deps_json_t                 *)
(* (src/native/corehost/hostpolicy/deps_format.cpp) and the JSON document  *)
(* wrapper json_parser_t (src/native/corehost/json_parser.cpp).            *)
(*                                                                         *)
(* Strings are TLA+ strings.  std::unordered_map is a function whose       *)
(* DOMAIN is the set of keys present; std::vector is a sequence; the       *)
(* std::array indexed by asset type is a function over 0..2.               *)
(* A JSON object is the sequence of its members in document order.         *)
(* Asset versions (assemblyVersion / fileVersion) are not modelled.        *)
(***************************************************************************)
EXTENDS Integers, Sequences, FiniteSets, TLC

VARIABLES
    deps_file,          \* the manifest on disk: [exists, wellformed, doc]
    options,            \* m_rid_resolution_options: [use_fallback_graph]
    rid_fallback_graph, \* the graph options.rid_fallback_graph points to
    env,                \* [rid_env, os_rid_platform]: DOTNET_RUNTIME_ID, OS-reported platform
    m_file_exists,      \* deps_json_t::m_file_exists
    m_valid,            \* deps_json_t::m_valid
    m_rid_assets,       \* deps_json_t::m_rid_assets.libs
    m_assets,           \* deps_json_t::m_assets.libs
    m_deps_entries,     \* deps_json_t::m_deps_entries
    pc,                 \* position of the caller: "new", "parsed", "call", "done"
    mode,               \* the load mode run: "none", "framework_dependent", "self_contained"
    outcome,            \* how the last call left: "none", "returned", "threw"
    parse_result,       \* what parse_file returned: "none", "true", "false"
    steps,              \* history: the phases of load that have run, in order
    rid_extracted,      \* history: m_rid_assets.libs as extracted, before perform_rid_fallback
    call,               \* arguments of a function applied on its own
    ret,                \* its result
    hash_order,         \* the order in which this process's std::unordered_map iterates RID keys
    iter                \* position of the find_if scan over a fallback list, 0 when none runs

vars == <<deps_file, options, rid_fallback_graph, env, m_file_exists, m_valid,
          m_rid_assets, m_assets, m_deps_entries, pc, mode, outcome, parse_result,
          steps, rid_extracted, call, ret, hash_order, iter>>

----------------------------------------------------------------------------
(* Bounds of the model *)

MaxFallbacks == 2      \* longest fallback list of a drawn graph
MaxRtEntries == 2      \* most runtimeTargets file entries in a drawn manifest
MaxFileLen == 4        \* most bytes of a drawn file

----------------------------------------------------------------------------
(* Strings *)

CharAt(s, i) == SubSeq(s, i, i)

\* std::basic_string::rfind(char): the last position of c in s, 0 for npos
rfind(s, c) ==
    LET hits == {i \in 1..Len(s) : CharAt(s, i) = c}
    IN IF hits = {} THEN 0 ELSE CHOOSE i \in hits : \A j \in hits : j <= i

\* std::basic_string::find(char): the first position of c in s, 0 for npos
find(s, c) ==
    LET hits == {i \in 1..Len(s) : CharAt(s, i) = c}
    IN IF hits = {} THEN 0 ELSE CHOOSE i \in hits : \A j \in hits : i <= j

\* std::basic_string::find_last_of("/\\")
find_last_of_sep(s) ==
    LET hits == {i \in 1..Len(s) : CharAt(s, i) \in {"/", "\\"}}
    IN IF hits = {} THEN 0 ELSE CHOOSE i \in hits : \A j \in hits : j <= i

\* get_filename_without_ext(path)
get_filename_without_ext(path) ==
    IF path = "" THEN path
    ELSE LET name_pos  == find_last_of_sep(path)
             dot_pos   == rfind(path, ".")
             start_pos == name_pos + 1
             stop      == IF dot_pos = 0 \/ dot_pos < start_pos THEN Len(path) ELSE dot_pos - 1
         IN SubSeq(path, start_pos, stop)

\* strip_file_ext(path)
strip_file_ext(path) ==
    IF path = "" THEN path
    ELSE LET dot_pos == rfind(path, ".")
         IN IF dot_pos = 0 THEN path ELSE SubSeq(path, 1, dot_pos - 1)

UpperCase == "ABCDEFGHIJKLMNOPQRSTUVWXYZ"
LowerCase == "abcdefghijklmnopqrstuvwxyz"

UpperChars == {CharAt(UpperCase, i) : i \in 1..Len(UpperCase)}
LowerTable == [c \in UpperChars |-> CharAt(LowerCase, find(UpperCase, c))]

\* ::tolower on one character
LowerOf(c) == IF c \in UpperChars THEN LowerTable[c] ELSE c

RECURSIVE to_lower(_)
to_lower(s) == IF s = "" THEN "" ELSE LowerOf(CharAt(s, 1)) \o to_lower(SubSeq(s, 2, Len(s)))

\* utils::ends_with(value, suffix, match_case)
ends_with(value, suffix, match_case) ==
    /\ Len(value) >= Len(suffix)
    /\ LET tail == SubSeq(value, Len(value) - Len(suffix) + 1, Len(value))
       IN IF match_case THEN tail = suffix ELSE to_lower(tail) = to_lower(suffix)

\* pal::strcasecmp(a, b) == 0
strcasecmp_eq(a, b) == to_lower(a) = to_lower(b)

----------------------------------------------------------------------------
(* deps_entry_t::asset_types and s_known_asset_types *)

asset_types_count == 3
AssetTypeIdx == 0..(asset_types_count - 1)

s_known_asset_types == [i \in AssetTypeIdx |->
    CASE i = 0 -> "runtime" [] i = 1 -> "resources" [] OTHER -> "native"]

EmptyMap == [k \in {} |-> <<>>]

\* a freshly value-initialised std::array of per-type RID maps / asset vectors
EmptyRidTypes == [i \in AssetTypeIdx |-> EmptyMap]
EmptyTypes == [i \in AssetTypeIdx |-> <<>>]

\* unordered_map::operator[] followed by an assignment
MapPut(map, key, value) == [k \in DOMAIN map \cup {key} |-> IF k = key THEN value ELSE map[k]]

\* simdjson object lookup by key: the first member with that key, or none
Members(obj, key) == {i \in 1..Len(obj) : obj[i].key = key}
has_key(obj, key) == Members(obj, key) # {}
at_key(obj, key) == obj[CHOOSE i \in Members(obj, key) : \A j \in Members(obj, key) : i <= j]

----------------------------------------------------------------------------
(* The manifest document, as far as the loader reads it.                   *)
(*   doc.kind          kind of the root value                              *)
(*   doc.runtimeTarget [shape, has_name, name]: a string (shape "string"), *)
(*                     or an object that has a string `name` or not        *)
(*   doc.targets       [shape, members]: members are [key, shape, packages]*)
(*   package           [key, shape, files, has_runtimeTargets,             *)
(*                      runtimeTargets]; files[i] are the file keys of the *)
(*                      object under s_known_asset_types[i] (<<>> when the *)
(*                      member is absent, empty or not an object);         *)
(*                      runtimeTargets, when present, is an object         *)
(*   rtfile            [key, shape, type_shape, assetType, rid_shape, rid] *)
(*   doc.libraries     [shape, members]: members are                       *)
(*                     [key, serviceable, has_type, type, sha512, path,    *)
(*                      hashPath, runtimeStoreManifestName]                *)
(*   doc.runtimes      [shape, members]: members are                       *)
(*                     [key, is_array, elems], elems are [is_string, str]  *)
(* A shape is "object", "absent" or "other".                               *)
(***************************************************************************)

NoSection == [shape |-> "absent", members |-> <<>>]
Section(ms) == [shape |-> "object", members |-> ms]

\* the document of a well-formed text whose root is not an object
ScalarDoc(kind) ==
    [kind |-> kind, runtimeTarget |-> [shape |-> "absent", has_name |-> FALSE, name |-> ""],
     targets |-> NoSection, libraries |-> NoSection, runtimes |-> NoSection]

deps_asset_t(name, relative_path) == [name |-> name, relative_path |-> relative_path]

----------------------------------------------------------------------------
(* RID fallback graph *)

\* faulty variant: the first element that is no string ends the list
RECURSIVE string_elems_until_non_string(_)
string_elems_until_non_string(elems) ==
    IF elems = <<>> THEN <<>>
    ELSE IF ~Head(elems).is_string THEN <<>>
    ELSE <<Head(elems).str>> \o string_elems_until_non_string(Tail(elems))


\* the string elements of a fallback array, in order
RECURSIVE string_elems(_)
string_elems(elems) ==
    IF elems = <<>> THEN <<>>
    ELSE (IF Head(elems).is_string THEN <<Head(elems).str>> ELSE <<>>)
         \o string_elems(Tail(elems))

\* faulty variant: a key is entered in the graph only when its value is an array
RECURSIVE populate_members_arrays_only(_, _)
populate_members_arrays_only(members, graph) ==
    IF members = <<>> THEN graph
    ELSE LET rid == Head(members)
             vec == IF rid.key \in DOMAIN graph THEN graph[rid.key] ELSE <<>>
         IN populate_members_arrays_only(Tail(members),
                IF rid.is_array THEN MapPut(graph, rid.key, vec \o string_elems(rid.elems))
                ELSE graph)


RECURSIVE populate_members(_, _)
populate_members(members, graph) ==
    IF members = <<>> THEN graph
    ELSE LET rid == Head(members)
             vec == IF rid.key \in DOMAIN graph THEN graph[rid.key] ELSE <<>>
             new == IF rid.is_array THEN vec \o string_elems(rid.elems) ELSE vec
         IN populate_members(Tail(members), MapPut(graph, rid.key, new))

populate_rid_fallback_graph(json, graph) ==
    IF json.kind # "object" THEN graph
    ELSE IF json.runtimes.shape # "object" THEN graph
    ELSE populate_members(json.runtimes.members, graph)

----------------------------------------------------------------------------
(* Host RIDs.  The build modelled is the non-portable Linux one:           *)
(* HOST_RID_PLATFORM "ubuntu", CURRENT_OS_NAME "linux", fallback OS        *)
(* "linux", architecture "x64".                                            *)

CURRENT_ARCH_NAME == "x64"
HOST_RID_PLATFORM == "ubuntu"
CURRENT_OS_NAME == "linux"
FALLBACK_HOST_OS == "linux"

CURRENT_ARCH_SUFFIX == "-" \o CURRENT_ARCH_NAME
\* faulty variant: the unqualified RID of an OS comes before the arch-qualified one
RID_CURRENT_ARCH_LIST_unqualified_first(os) == <<os, os \o CURRENT_ARCH_SUFFIX>>

RID_CURRENT_ARCH_LIST(os) == <<os \o CURRENT_ARCH_SUFFIX, os>>

s_host_rids ==
    RID_CURRENT_ARCH_LIST(HOST_RID_PLATFORM)
    \o RID_CURRENT_ARCH_LIST(CURRENT_OS_NAME)
    \o RID_CURRENT_ARCH_LIST("unix")
    \o <<"any">>

\* try_get_runtime_id_from_env: the override counts when it is set and not empty
try_get_runtime_id_from_env(e) == e.rid_env # ""

\* faulty variant: a composed RID that is not a key of the graph is kept
get_current_machine_rid_keep_composed(graph, graph_not_null, e) ==
    LET composed ==
            IF try_get_runtime_id_from_env(e) THEN e.rid_env
            ELSE IF e.os_rid_platform # "" THEN e.os_rid_platform \o "-" \o CURRENT_ARCH_NAME
            ELSE ""
    IN IF composed = "" THEN FALLBACK_HOST_OS \o "-" \o CURRENT_ARCH_NAME ELSE composed

get_current_machine_rid(graph, graph_not_null, e) ==
    LET composed ==
            IF try_get_runtime_id_from_env(e) THEN e.rid_env
            ELSE IF e.os_rid_platform # "" THEN e.os_rid_platform \o "-" \o CURRENT_ARCH_NAME
            ELSE ""
    IN IF composed = "" \/ (graph_not_null /\ composed \notin DOMAIN graph)
       THEN FALLBACK_HOST_OS \o "-" \o CURRENT_ARCH_NAME
       ELSE composed

\* faulty variant: the last element of the list that is a key is taken
RECURSIVE find_last_key(_, _)
find_last_key(rids, rid_assets) ==
    IF rids = <<>> THEN [found |-> FALSE, out_rid |-> ""]
    ELSE IF rids[Len(rids)] \in DOMAIN rid_assets
    THEN [found |-> TRUE, out_rid |-> rids[Len(rids)]]
    ELSE find_last_key(SubSeq(rids, 1, Len(rids) - 1), rid_assets)

\* the first element of a list that is a key of rid_assets: [found, out_rid]
RECURSIVE find_first_key(_, _)
find_first_key(rids, rid_assets) ==
    IF rids = <<>> THEN [found |-> FALSE, out_rid |-> ""]
    ELSE IF Head(rids) \in DOMAIN rid_assets THEN [found |-> TRUE, out_rid |-> Head(rids)]
    ELSE find_first_key(Tail(rids), rid_assets)

\* faulty variant: the static list is scanned before the override is tried
try_get_matching_rid_list_first(rid_assets, e) ==
    IF find_first_key(s_host_rids, rid_assets).found
    THEN find_first_key(s_host_rids, rid_assets)
    ELSE IF try_get_runtime_id_from_env(e) /\ e.rid_env \in DOMAIN rid_assets
    THEN [found |-> TRUE, out_rid |-> e.rid_env]
    ELSE [found |-> FALSE, out_rid |-> ""]

try_get_matching_rid(rid_assets, e) ==
    IF try_get_runtime_id_from_env(e) /\ e.rid_env \in DOMAIN rid_assets
    THEN [found |-> TRUE, out_rid |-> e.rid_env]
    ELSE find_first_key(s_host_rids, rid_assets)

\* faulty variant: the fallback list is scanned before the exact match is tried
try_get_matching_rid_fallback_first(rid_assets, host_rid, graph) ==
    IF host_rid \in DOMAIN graph /\ find_first_key(graph[host_rid], rid_assets).found
    THEN find_first_key(graph[host_rid], rid_assets)
    ELSE IF host_rid \in DOMAIN rid_assets THEN [found |-> TRUE, out_rid |-> host_rid]
    ELSE [found |-> FALSE, out_rid |-> ""]

try_get_matching_rid_with_fallback_graph(rid_assets, host_rid, graph) ==
    IF host_rid \in DOMAIN rid_assets THEN [found |-> TRUE, out_rid |-> host_rid]
    ELSE IF host_rid \notin DOMAIN graph THEN [found |-> FALSE, out_rid |-> ""]
    ELSE find_first_key(graph[host_rid], rid_assets)

\* faulty variant: the buckets of the other RIDs are not erased once a RID is matched
filter_rid_assets_keep_all(rid_assets, opts, host_rid, graph, e) ==
    IF DOMAIN rid_assets = {} THEN rid_assets
    ELSE LET m == IF opts.use_fallback_graph
                  THEN try_get_matching_rid_with_fallback_graph(rid_assets, host_rid, graph)
                  ELSE try_get_matching_rid(rid_assets, e)
         IN IF ~m.found THEN EmptyMap ELSE rid_assets

\* the body of the loop over asset types in perform_rid_fallback, for one RID map
filter_rid_assets(rid_assets, opts, host_rid, graph, e) ==
    IF DOMAIN rid_assets = {} THEN rid_assets
    ELSE LET m == IF opts.use_fallback_graph
                  THEN try_get_matching_rid_with_fallback_graph(rid_assets, host_rid, graph)
                  ELSE try_get_matching_rid(rid_assets, e)
         IN IF ~m.found THEN EmptyMap
            ELSE [r \in {k \in DOMAIN rid_assets : k = m.out_rid} |-> rid_assets[r]]

\* faulty variant: a failed match leaves the loop over the package's asset types, dropping the package
perform_rid_fallback_clear_package(portable_assets, opts, graph, e) ==
    LET host_rid == IF opts.use_fallback_graph
                    THEN get_current_machine_rid(graph, TRUE, e)
                    ELSE ""
        resolved(package, i) ==
            filter_rid_assets(portable_assets[package][i], opts, host_rid, graph, e)
        failed(package) ==
            \E i \in AssetTypeIdx : /\ DOMAIN portable_assets[package][i] # {}
                                    /\ DOMAIN resolved(package, i) = {}
    IN [package \in DOMAIN portable_assets |->
          [asset_type_index \in AssetTypeIdx |->
              IF failed(package) THEN EmptyMap ELSE resolved(package, asset_type_index)]]

\* faulty variant: a matched RID is found and the buckets of the other RIDs are left in place
perform_rid_fallback_match_only(portable_assets, opts, graph, e) ==
    LET host_rid == IF opts.use_fallback_graph
                    THEN get_current_machine_rid(graph, TRUE, e)
                    ELSE ""
    IN [package \in DOMAIN portable_assets |->
          [asset_type_index \in AssetTypeIdx |->
              IF DOMAIN filter_rid_assets(portable_assets[package][asset_type_index],
                                          opts, host_rid, graph, e) = {}
              THEN EmptyMap
              ELSE portable_assets[package][asset_type_index]]]

perform_rid_fallback(portable_assets, opts, graph, e) ==
    LET host_rid == IF opts.use_fallback_graph
                    THEN get_current_machine_rid(graph, TRUE, e)
                    ELSE ""
    IN [package \in DOMAIN portable_assets |->
          [asset_type_index \in AssetTypeIdx |->
              filter_rid_assets(portable_assets[package][asset_type_index],
                                opts, host_rid, graph, e)]]

----------------------------------------------------------------------------
(* Asset extraction *)

\* assets.libs[package][asset_type_index].rid_assets[rid].push_back(asset)
push_rid_asset(libs, package, asset_type_index, rid, asset) ==
    LET types == IF package \in DOMAIN libs THEN libs[package] ELSE EmptyRidTypes
        rid_assets == types[asset_type_index]
        vec == IF rid \in DOMAIN rid_assets THEN rid_assets[rid] ELSE <<>>
    IN MapPut(libs, package,
              [types EXCEPT ![asset_type_index] = MapPut(rid_assets, rid, Append(vec, asset))])

\* faulty variant: an entry of a known type without a string `rid` is appended under the empty RID
RECURSIVE add_runtime_target_files_any_rid(_, _, _)
add_runtime_target_files_any_rid(files, package, libs) ==
    IF files = <<>> THEN libs
    ELSE LET file == Head(files)
             matches == {i \in AssetTypeIdx : strcasecmp_eq(file.assetType, s_known_asset_types[i])}
             asset == deps_asset_t(get_filename_without_ext(file.key), file.key)
             next ==
                 IF file.shape # "object" THEN libs
                 ELSE IF file.type_shape # "string" THEN libs
                 ELSE IF matches = {} THEN libs
                 ELSE push_rid_asset(libs, package, CHOOSE i \in matches : TRUE,
                                     IF file.rid_shape = "string" THEN file.rid ELSE "", asset)
         IN add_runtime_target_files_any_rid(Tail(files), package, next)


\* the loop over the files of one package's runtimeTargets
RECURSIVE add_runtime_target_files(_, _, _)
add_runtime_target_files(files, package, libs) ==
    IF files = <<>> THEN libs
    ELSE LET file == Head(files)
             matches == {i \in AssetTypeIdx : strcasecmp_eq(file.assetType, s_known_asset_types[i])}
             asset == deps_asset_t(get_filename_without_ext(file.key), file.key)
             next ==
                 IF file.shape # "object" THEN libs
                 ELSE IF file.type_shape # "string" THEN libs
                 ELSE IF matches = {} THEN libs
                 ELSE IF file.rid_shape # "string" THEN libs
                 ELSE push_rid_asset(libs, package, CHOOSE i \in matches : TRUE, file.rid, asset)
         IN add_runtime_target_files(Tail(files), package, next)

\* the loop over the packages of the target
RECURSIVE add_runtime_target_packages(_, _)
add_runtime_target_packages(packages, libs) ==
    IF packages = <<>> THEN libs
    ELSE LET package == Head(packages)
             next ==
                 IF package.shape # "object" THEN libs
                 ELSE IF ~package.has_runtimeTargets THEN libs
                 ELSE add_runtime_target_files(package.runtimeTargets, package.key, libs)
         IN add_runtime_target_packages(Tail(packages), next)

\* the named target's packages when `targets` and the target are objects, <<>> otherwise
target_packages(json, target_name) ==
    IF json.targets.shape # "object" THEN <<>>
    ELSE IF ~has_key(json.targets.members, target_name) THEN <<>>
    ELSE IF at_key(json.targets.members, target_name).shape # "object" THEN <<>>
    ELSE at_key(json.targets.members, target_name).packages

\* [extracted, assets, resolved]: the map before perform_rid_fallback, the map the
\* method leaves, and whether perform_rid_fallback ran
process_runtime_targets(json, target_name, assets, opts, graph, e) ==
    LET packages == target_packages(json, target_name)
        extracted == add_runtime_target_packages(packages, assets)
    IN IF packages = <<>>
       THEN [extracted |-> assets, assets |-> assets, resolved |-> FALSE]
       ELSE [extracted |-> extracted,
             assets |-> perform_rid_fallback(extracted, opts, graph, e),
             resolved |-> TRUE]

RECURSIVE file_assets(_)
file_assets(files) ==
    IF files = <<>> THEN <<>>
    ELSE <<deps_asset_t(get_filename_without_ext(Head(files)), Head(files))>>
         \o file_assets(Tail(files))

\* the loop over the asset types of one package: types i..count-1
RECURSIVE add_package_types(_, _, _)
add_package_types(package, i, libs) ==
    IF i >= asset_types_count THEN libs
    ELSE LET files == package.files[i]
             types == IF package.key \in DOMAIN libs THEN libs[package.key] ELSE EmptyTypes
             next ==
                 IF files = <<>> THEN libs
                 ELSE MapPut(libs, package.key,
                             [types EXCEPT ![i] = types[i] \o file_assets(files)])
         IN add_package_types(package, i + 1, next)

RECURSIVE add_target_packages(_, _)
add_target_packages(packages, libs) ==
    IF packages = <<>> THEN libs
    ELSE LET package == Head(packages)
             next == IF package.shape # "object" THEN libs
                     ELSE add_package_types(package, 0, libs)
         IN add_target_packages(Tail(packages), next)

process_targets(json, target_name, assets) ==
    add_target_packages(target_packages(json, target_name), assets)

----------------------------------------------------------------------------
(* Reconciliation of `libraries` with the extracted assets *)

DepsFileName == "app.deps.json"

\* std::unordered_map::begin(): the key met first when the map is iterated
begin_key(map) ==
    LET at == {k \in 1..Len(hash_order) : hash_order[k] \in DOMAIN map}
    IN IF at = {} THEN CHOOSE r \in DOMAIN map : TRUE
       ELSE hash_order[CHOOSE k \in at : \A j \in at : k <= j]

\* the package_exists lambdas of load_framework_dependent and load_self_contained
package_exists(is_framework_dependent, rid_libs, libs, package) ==
    IF is_framework_dependent
    THEN package \in DOMAIN rid_libs \/ package \in DOMAIN libs
    ELSE package \in DOMAIN libs

\* faulty variant: the generic bucket is preferred when it is not empty
get_relpaths_generic_first(is_framework_dependent, rid_libs, libs, package, asset_type_index) ==
    LET generic == IF package \in DOMAIN libs THEN libs[package][asset_type_index] ELSE <<>>
        has_rid == /\ package \in DOMAIN rid_libs
                   /\ DOMAIN rid_libs[package][asset_type_index] # {}
        rid_assets == rid_libs[package][asset_type_index]
        assets_for_type == rid_assets[CHOOSE r \in DOMAIN rid_assets : TRUE]
    IN IF ~is_framework_dependent \/ generic # <<>>
       THEN [assets |-> generic, rid_specific |-> FALSE]
       ELSE IF has_rid THEN [assets |-> assets_for_type, rid_specific |-> TRUE]
       ELSE [assets |-> generic, rid_specific |-> FALSE]

\* the get_relpaths lambdas: [assets, rid_specific]; rid_assets.begin() is the first
\* key of the map in the iteration order of the process
get_relpaths(is_framework_dependent, rid_libs, libs, package, asset_type_index) ==
    LET generic == IF package \in DOMAIN libs THEN libs[package][asset_type_index] ELSE <<>>
        has_rid == /\ package \in DOMAIN rid_libs
                   /\ DOMAIN rid_libs[package][asset_type_index] # {}
        rid_assets == rid_libs[package][asset_type_index]
        assets_for_type == rid_assets[begin_key(rid_assets)]
    IN IF ~is_framework_dependent THEN [assets |-> generic, rid_specific |-> FALSE]
       ELSE IF has_rid /\ assets_for_type # <<>>
            THEN [assets |-> assets_for_type, rid_specific |-> TRUE]
       ELSE [assets |-> generic, rid_specific |-> FALSE]

\* faulty variant: the entry takes the asset's name as extracted
make_entry_keep_marker(library, lib_name, asset_type_index, rid_specific, asset) ==
    LET pos == find(lib_name, "/")
    IN [library_name |-> IF pos = 0 THEN lib_name ELSE SubSeq(lib_name, 1, pos - 1),
        library_version |-> IF pos = 0 THEN lib_name ELSE SubSeq(lib_name, pos + 1, Len(lib_name)),
        library_type |-> to_lower(library.type),
        library_hash |-> library.sha512,
        library_path |-> library.path,
        library_hash_path |-> library.hashPath,
        runtime_store_manifest_list |-> library.runtimeStoreManifestName,
        asset_type |-> asset_type_index,
        is_serviceable |-> (library.serviceable = "true"),
        is_rid_specific |-> rid_specific,
        deps_file |-> DepsFileName,
        asset |-> asset]

\* the deps_entry_t built for one asset of one library
make_entry(library, lib_name, asset_type_index, rid_specific, asset) ==
    LET pos == find(lib_name, "/")
        library_name == IF pos = 0 THEN lib_name ELSE SubSeq(lib_name, 1, pos - 1)
        library_version == IF pos = 0 THEN lib_name ELSE SubSeq(lib_name, pos + 1, Len(lib_name))
        asset_name == IF ends_with(asset.name, ".ni", FALSE)
                      THEN strip_file_ext(asset.name) ELSE asset.name
    IN [library_name |-> library_name,
        library_version |-> library_version,
        library_type |-> to_lower(library.type),
        library_hash |-> library.sha512,
        library_path |-> library.path,
        library_hash_path |-> library.hashPath,
        runtime_store_manifest_list |-> library.runtimeStoreManifestName,
        asset_type |-> asset_type_index,
        is_serviceable |-> (library.serviceable = "true"),
        is_rid_specific |-> rid_specific,
        deps_file |-> DepsFileName,
        asset |-> [asset EXCEPT !.name = asset_name]]

RECURSIVE asset_entries(_, _, _, _, _)
asset_entries(library, lib_name, asset_type_index, rid_specific, assets) ==
    IF assets = <<>> THEN <<>>
    ELSE <<make_entry(library, lib_name, asset_type_index, rid_specific, Head(assets))>>
         \o asset_entries(library, lib_name, asset_type_index, rid_specific, Tail(assets))

\* faulty variant: the entries of a library are put in front of the ones already there
add_library_entries_in_front(library, is_framework_dependent, rid_libs, libs, entries) ==
    [i \in AssetTypeIdx |->
        LET got == get_relpaths(is_framework_dependent, rid_libs, libs, library.key, i)
        IN asset_entries(library, library.key, i, got.rid_specific, got.assets) \o entries[i]]

\* the loop over asset types for one library that has assets and metadata
add_library_entries(library, is_framework_dependent, rid_libs, libs, entries) ==
    [i \in AssetTypeIdx |->
        LET got == get_relpaths(is_framework_dependent, rid_libs, libs, library.key, i)
        IN entries[i] \o asset_entries(library, library.key, i, got.rid_specific, got.assets)]

\* [entries, threw]: threw when .value() is taken of a missing `serviceable` or `type`
RECURSIVE reconcile_members(_, _, _, _, _)
reconcile_members(members, is_framework_dependent, rid_libs, libs, entries) ==
    IF members = <<>> THEN [entries |-> entries, threw |-> FALSE]
    ELSE LET library == Head(members)
         IN IF ~package_exists(is_framework_dependent, rid_libs, libs, library.key)
            THEN reconcile_members(Tail(members), is_framework_dependent, rid_libs, libs, entries)
            ELSE IF library.serviceable = "absent" \/ ~library.has_type
            THEN [entries |-> entries, threw |-> TRUE]
            ELSE reconcile_members(Tail(members), is_framework_dependent, rid_libs, libs,
                     add_library_entries(library, is_framework_dependent, rid_libs, libs, entries))

\* faulty variant: a library that has assets but no metadata is reconciled with default metadata
reconcile_libraries_without_metadata(json, is_framework_dependent, rid_libs, libs, entries) ==
    LET listed == {json.libraries.members[i].key : i \in 1..Len(json.libraries.members)}
        missing == (DOMAIN rid_libs \cup DOMAIN libs) \ listed
        default(key) ==
            [key |-> key, serviceable |-> "false", has_type |-> TRUE, type |-> "package",
             sha512 |-> "", path |-> "", hashPath |-> "", runtimeStoreManifestName |-> ""]
        RECURSIVE seq_of(_)
        seq_of(keys) == IF keys = {} THEN <<>>
                        ELSE LET k == CHOOSE x \in keys : TRUE
                             IN <<default(k)>> \o seq_of(keys \ {k})
    IN reconcile_members(json.libraries.members \o seq_of(missing),
                         is_framework_dependent, rid_libs, libs, entries)

reconcile_libraries_with_targets(json, is_framework_dependent, rid_libs, libs, entries) ==
    IF json.libraries.shape # "object" THEN [entries |-> entries, threw |-> FALSE]
    ELSE reconcile_members(json.libraries.members, is_framework_dependent, rid_libs, libs, entries)

----------------------------------------------------------------------------
(* The two load modes.  st is [m_rid_assets, m_assets, m_deps_entries]; the result *)
(* adds rid_extracted, threw and the phases that ran.                              *)

load_framework_dependent(json, target_name, st, opts, graph, e) ==
    LET rt == process_runtime_targets(json, target_name, st.m_rid_assets, opts, graph, e)
        libs == process_targets(json, target_name, st.m_assets)
        rec == reconcile_libraries_with_targets(json, TRUE, rt.assets, libs, st.m_deps_entries)
    IN [m_rid_assets |-> rt.assets,
        m_assets |-> libs,
        m_deps_entries |-> rec.entries,
        rid_extracted |-> rt.extracted,
        threw |-> rec.threw,
        steps |-> <<"process_runtime_targets">>
                  \o (IF rt.resolved THEN <<"perform_rid_fallback">> ELSE <<>>)
                  \o <<"process_targets", "reconcile">>]

\* faulty variant: the self-contained load extracts and resolves runtimeTargets as well
load_self_contained_with_runtime_targets(json, target_name, st) ==
    load_framework_dependent(json, target_name, st, options, rid_fallback_graph, env)

load_self_contained(json, target_name, st) ==
    LET libs == process_targets(json, target_name, st.m_assets)
        rec == reconcile_libraries_with_targets(json, FALSE, st.m_rid_assets, libs, st.m_deps_entries)
    IN [m_rid_assets |-> st.m_rid_assets,
        m_assets |-> libs,
        m_deps_entries |-> rec.entries,
        rid_extracted |-> st.m_rid_assets,
        threw |-> rec.threw,
        steps |-> <<"process_targets", "reconcile">>]

\* faulty variant: a library found in the RID map counts even when all its RID maps are empty
has_package_any_key(name, ver, rid_libs, libs) ==
    LET pv == name \o "/" \o ver
    IN pv \in DOMAIN rid_libs \/ pv \in DOMAIN libs

has_package(name, ver, rid_libs, libs) ==
    LET pv == name \o "/" \o ver
    IN \/ /\ pv \in DOMAIN rid_libs
          /\ \E asset_type_index \in AssetTypeIdx : DOMAIN rid_libs[pv][asset_type_index] # {}
       \/ pv \in DOMAIN libs

----------------------------------------------------------------------------
(* json_parser_t and deps_json_t::load *)

\* faulty variant: the parser's error is not looked at
parse_raw_data_error_ignored(file) ==
    IF file.doc.kind = "object" THEN [ok |-> FALSE, doc |-> file.doc]
    ELSE [ok |-> TRUE, doc |-> file.doc]

\* [ok, doc]: the parser refuses a text that is not well formed; m_document is the root
parse_raw_data(file) ==
    IF ~file.wellformed THEN [ok |-> FALSE, doc |-> file.doc]
    ELSE IF file.doc.kind = "object" THEN [ok |-> FALSE, doc |-> file.doc]
    ELSE [ok |-> TRUE, doc |-> file.doc]

\* a file that cannot be mapped is refused before any parsing
parse_file(file) ==
    IF ~file.exists THEN [ok |-> FALSE, doc |-> file.doc]
    ELSE parse_raw_data(file)

\* faulty variant: the probe always reports the file
deps_file_exists_always(file) == TRUE

deps_file_exists(file) == file.exists

\* deps_json_t::get_rid_fallback_graph(deps_path): the graph of a manifest on disk,
\* empty when the file is absent or parse_file refuses it
get_rid_fallback_graph(file) ==
    IF ~deps_file_exists(file) THEN EmptyMap
    ELSE IF ~parse_file(file).ok THEN EmptyMap
    ELSE populate_rid_fallback_graph(parse_file(file).doc, EmptyMap)


\* the target name load reads from `runtimeTarget`: [found, name]; when it is not found
\* .value() is taken of an error
runtime_target_name(json) ==
    LET runtime_target == json.runtimeTarget
    IN [found |-> \/ runtime_target.shape = "string"
                  \/ runtime_target.shape = "object" /\ runtime_target.has_name,
        name |-> runtime_target.name]

\* `if (post_process) post_process(json.document())`: the only callback passed is the
\* one of create_for_self_contained, which populates the graph of the options
\* faulty variant: the graph is populated by every load that gets to its end
post_process_by_every_load(has_post_process, json, graph) ==
    populate_rid_fallback_graph(json, graph)

post_process(has_post_process, json, graph) ==
    IF has_post_process THEN populate_rid_fallback_graph(json, graph) ELSE graph

NewLoader ==
    [m_file_exists |-> FALSE, m_valid |-> FALSE, m_rid_assets |-> EmptyMap,
     m_assets |-> EmptyMap, m_deps_entries |-> EmptyTypes, outcome |-> "returned",
     parse_result |-> "none", steps |-> <<>>, rid_extracted |-> EmptyMap,
     post_processed |-> FALSE]

\* faulty variant: a parse failure does not end the load, the document is processed all the same
load_parse_failure_ignored(file, is_framework_dependent, has_post_process, opts, graph, e) ==
    LET parsed == parse_file(file)
        json == parsed.doc
        st == [m_rid_assets |-> EmptyMap, m_assets |-> EmptyMap, m_deps_entries |-> EmptyTypes]
        r == IF is_framework_dependent
             THEN load_framework_dependent(json, json.runtimeTarget.name, st, opts, graph, e)
             ELSE load_self_contained(json, json.runtimeTarget.name, st)
    IN IF ~deps_file_exists(file)
       THEN [NewLoader EXCEPT !.m_valid = TRUE, !.steps = <<"deps_file_exists">>]
       ELSE IF ~runtime_target_name(json).found
       THEN [NewLoader EXCEPT !.m_file_exists = TRUE, !.m_valid = parsed.ok,
                              !.parse_result = IF parsed.ok THEN "true" ELSE "false",
                              !.outcome = "threw",
                              !.steps = <<"deps_file_exists", "parse_file">>]
       ELSE [m_file_exists |-> TRUE,
             m_valid |-> parsed.ok,
             m_rid_assets |-> r.m_rid_assets,
             m_assets |-> r.m_assets,
             m_deps_entries |-> r.m_deps_entries,
             outcome |-> IF r.threw THEN "threw" ELSE "returned",
             parse_result |-> IF parsed.ok THEN "true" ELSE "false",
             steps |-> <<"deps_file_exists", "parse_file">> \o r.steps
                       \o (IF has_post_process /\ ~r.threw THEN <<"post_process">> ELSE <<>>),
             rid_extracted |-> r.rid_extracted,
             post_processed |-> has_post_process /\ ~r.threw]

\* the loader after load(is_framework_dependent, post_process) on a new deps_json_t
load(file, is_framework_dependent, has_post_process, opts, graph, e) ==
    LET exists == deps_file_exists(file)
        parsed == parse_file(file)
        json == parsed.doc
        runtime_target == json.runtimeTarget
        name_found == \/ runtime_target.shape = "string"
                      \/ runtime_target.shape = "object" /\ runtime_target.has_name
        st == [m_rid_assets |-> EmptyMap, m_assets |-> EmptyMap, m_deps_entries |-> EmptyTypes]
        r == IF is_framework_dependent
             THEN load_framework_dependent(json, runtime_target.name, st, opts, graph, e)
             ELSE load_self_contained(json, runtime_target.name, st)
    IN IF ~exists
       THEN [NewLoader EXCEPT !.m_valid = TRUE, !.steps = <<"deps_file_exists">>]
       ELSE IF ~parsed.ok
       THEN [NewLoader EXCEPT !.m_file_exists = TRUE, !.parse_result = "false",
                              !.steps = <<"deps_file_exists", "parse_file">>]
       ELSE IF ~name_found
       THEN [NewLoader EXCEPT !.m_file_exists = TRUE, !.m_valid = TRUE,
                              !.parse_result = "true", !.outcome = "threw",
                              !.steps = <<"deps_file_exists", "parse_file">>]
       ELSE [m_file_exists |-> TRUE,
             m_valid |-> TRUE,
             m_rid_assets |-> r.m_rid_assets,
             m_assets |-> r.m_assets,
             m_deps_entries |-> r.m_deps_entries,
             outcome |-> IF r.threw THEN "threw" ELSE "returned",
             parse_result |-> "true",
             steps |-> <<"deps_file_exists", "parse_file">> \o r.steps
                       \o (IF has_post_process /\ ~r.threw THEN <<"post_process">> ELSE <<>>),
             rid_extracted |-> r.rid_extracted,
             post_processed |-> has_post_process /\ ~r.threw]

----------------------------------------------------------------------------
(* The inputs drawn *)

SeqsUpTo(S, n) == UNION {[1..k -> S] : k \in 0..n}

TargetName == "net8.0"
Libs == {"A/1", "B/2"}
PackageOrder == <<"A/1", "B/2">>
RtRids == {"win-x64", "win", "linux-x64"}
RtTypes == {"runtime", "native"}
RtFileNames == <<"rt/a.ni.dll", "rt/b.dll", "rt/c.dll", "rt/d.dll">>

\* the RIDs a manifest or a graph names, in alphabetical order
RidOrder == <<"any", "linux-x64", "ubuntu-x64", "win", "win-x64">>

\* one runtimeTargets entry to draw: the library it is declared under, its assetType and rid
RtChoices == [lib : Libs, assetType : RtTypes, rid : RtRids]

RtFile(i, c) ==
    [key |-> RtFileNames[i], shape |-> "object", type_shape |-> "string",
     assetType |-> c.assetType, rid_shape |-> "string", rid |-> c.rid]

\* the runtimeTargets files of one library, in the order drawn
RECURSIVE RtFilesOf(_, _, _)
RtFilesOf(lib, cs, i) ==
    IF i > Len(cs) THEN <<>>
    ELSE (IF cs[i].lib = lib THEN <<RtFile(i, cs[i])>> ELSE <<>>) \o RtFilesOf(lib, cs, i + 1)

NoFiles == [i \in AssetTypeIdx |-> <<>>]
Files1(i, fs) == [NoFiles EXCEPT ![i] = fs]

\* the generic (per-category) files of the two libraries
GenericChoices ==
    { [l \in Libs |-> NoFiles],
      [l \in Libs |-> IF l = "A/1"
                      THEN [NoFiles EXCEPT ![0] = <<"lib/A.ni.dll">>, ![2] = <<"native/a.so">>]
                      ELSE Files1(1, <<"res/B.resources.dll">>)],
      [l \in Libs |-> IF l = "B/2" THEN Files1(0, <<"lib/B.dll", "lib/B2.dll">>) ELSE NoFiles] }

Package(lib, generic, cs) ==
    [key |-> lib, shape |-> "object", files |-> generic[lib],
     has_runtimeTargets |-> (RtFilesOf(lib, cs, 1) # <<>>),
     runtimeTargets |-> RtFilesOf(lib, cs, 1)]

\* the packages of the target: the libraries that declare anything, in PackageOrder
Packages(generic, cs) ==
    SelectSeq([i \in 1..Len(PackageOrder) |-> Package(PackageOrder[i], generic, cs)],
              LAMBDA pk : pk.files # NoFiles \/ pk.has_runtimeTargets)

Library(key) ==
    [key |-> key, serviceable |-> "true", has_type |-> TRUE, type |-> "Package",
     sha512 |-> "sha512-0", path |-> "", hashPath |-> "", runtimeStoreManifestName |-> ""]

LibraryOrders == {<<"B/2">>, <<"A/1", "B/2">>, <<"B/2", "A/1">>}

Libraries(order) == [i \in 1..Len(order) |-> Library(order[i])]

\* the `runtimes` section that denotes a graph whose keys are written in the order given
Runtimes(order, graph) ==
    [i \in 1..Len(order) |->
        [key |-> order[i], is_array |-> TRUE,
         elems |-> [j \in 1..Len(graph[order[i]]) |->
                       [is_string |-> TRUE, str |-> graph[order[i]][j]]]]]

ObjectDoc(rt_shape, generic, cs, order, runtimes) ==
    [kind |-> "object",
     runtimeTarget |-> [shape |-> rt_shape, has_name |-> (rt_shape = "object"), name |-> TargetName],
     targets |-> Section(<<[key |-> TargetName, shape |-> "object",
                            packages |-> Packages(generic, cs)]>>),
     libraries |-> Section(Libraries(order)),
     runtimes |-> runtimes]

\* the graph of the framework: win-x64 falls back to win, then any
GraphWin == [r \in {"win-x64", "win", "any"} |->
    CASE r = "win-x64" -> <<"win", "any">> [] r = "win" -> <<"any">> [] OTHER -> <<>>]

\* a graph that knows the OS-reported platform
GraphUbuntu == [r \in {"ubuntu-x64", "linux-x64"} |->
    CASE r = "ubuntu-x64" -> <<"linux-x64", "win">> [] OTHER -> <<>>]

Graphs == {GraphWin, GraphUbuntu}
Envs == {[rid_env |-> "win-x64", os_rid_platform |-> "ubuntu"],
         [rid_env |-> "", os_rid_platform |-> "ubuntu"]}
Options == [use_fallback_graph : BOOLEAN]

\* the resolution options, graph and environment a framework-dependent load is given
HostConfigs ==
    {[options |-> [use_fallback_graph |-> TRUE], graph |-> g, env |-> e] :
        g \in Graphs, e \in Envs}
    \cup {[options |-> [use_fallback_graph |-> FALSE], graph |-> GraphWin, env |-> e] : e \in Envs}
    \cup {[options |-> [use_fallback_graph |-> TRUE], graph |-> EmptyMap,
           env |-> [rid_env |-> "", os_rid_platform |-> "ubuntu"]]}

RuntimesWin == Section(Runtimes(<<"win-x64", "win", "any">>, GraphWin))

\* a member that is present and is not an object
OtherSection == [shape |-> "other", members |-> <<>>]

\* a manifest with generic and RID-specific assets and all sections, and the manifests
\* got from it by removing or misshaping one section or one library's metadata
BaseDoc ==
    ObjectDoc("object",
              [l \in Libs |-> IF l = "A/1"
                              THEN [NoFiles EXCEPT ![0] = <<"lib/A.ni.dll">>, ![2] = <<"native/a.so">>]
                              ELSE Files1(1, <<"res/B.resources.dll">>)],
              <<[lib |-> "A/1", assetType |-> "runtime", rid |-> "win-x64"]>>,
              <<"A/1", "B/2">>, RuntimesWin)

SectionShapes == {NoSection, OtherSection}

ShapeDocs ==
    {[BaseDoc EXCEPT !.targets = sec] : sec \in SectionShapes}
    \cup {[BaseDoc EXCEPT !.targets = Section(<<>>)],
          [BaseDoc EXCEPT !.targets = Section(<<[key |-> TargetName, shape |-> "other",
                                                 packages |-> <<>>]>>)]}
    \cup {[BaseDoc EXCEPT !.libraries = sec] : sec \in SectionShapes}
    \cup {[BaseDoc EXCEPT !.runtimes = sec] : sec \in SectionShapes}

----------------------------------------------------------------------------
(* Spec: a manifest on disk is loaded by one of the two factory methods *)

AbsentFile == [exists |-> FALSE, wellformed |-> FALSE, doc |-> ScalarDoc("null")]

NoCall == [rid_assets |-> EmptyMap, host_rid |-> "", graph |-> EmptyMap]
NoRet == [found |-> FALSE, out_rid |-> "", rid_assets |-> EmptyMap]

LoaderIs(r) ==
    /\ m_file_exists' = r.m_file_exists
    /\ m_valid' = r.m_valid
    /\ m_rid_assets' = r.m_rid_assets
    /\ m_assets' = r.m_assets
    /\ m_deps_entries' = r.m_deps_entries
    /\ outcome' = r.outcome
    /\ parse_result' = r.parse_result
    /\ steps' = r.steps
    /\ rid_extracted' = r.rid_extracted

Init ==
    /\ \/ deps_file = AbsentFile
       \/ \E wf \in BOOLEAN, kind \in {"array", "string"} :
             deps_file = [exists |-> TRUE, wellformed |-> wf, doc |-> ScalarDoc(kind)]
       \/ \E wf \in BOOLEAN, sh \in {"string", "object"}, g \in GenericChoices,
             cs \in SeqsUpTo(RtChoices, 1) :
             deps_file = [exists |-> TRUE, wellformed |-> wf,
                          doc |-> ObjectDoc(sh, g, cs, <<"A/1", "B/2">>, RuntimesWin)]
       \/ \E wf \in BOOLEAN, doc \in ShapeDocs :
             deps_file = [exists |-> TRUE, wellformed |-> wf, doc |-> doc]
    /\ options \in Options
    /\ rid_fallback_graph \in Graphs \cup {EmptyMap}
    /\ env \in Envs
    /\ m_file_exists = FALSE
    /\ m_valid = FALSE
    /\ m_rid_assets = EmptyMap
    /\ m_assets = EmptyMap
    /\ m_deps_entries = EmptyTypes
    /\ pc = "new"
    /\ mode = "none"
    /\ outcome = "none"
    /\ parse_result = "none"
    /\ steps = <<>>
    /\ rid_extracted = EmptyMap
    /\ call = NoCall
    /\ ret = NoRet
    /\ hash_order = RidOrder
    /\ iter = 0

create_for_framework_dependent ==
    /\ pc = "new"
    /\ \E r \in {load(deps_file, TRUE, FALSE, options, rid_fallback_graph, env)} : LoaderIs(r)
    /\ pc' = "done"
    /\ mode' = "framework_dependent"
    /\ UNCHANGED <<deps_file, options, rid_fallback_graph, env, call, ret, hash_order, iter>>

\* with use_fallback_graph the caller passes a graph that is not null and empty (the assert)
create_for_self_contained ==
    /\ pc = "new"
    /\ options.use_fallback_graph => rid_fallback_graph = EmptyMap
    /\ \E r \in {load(deps_file, FALSE, options.use_fallback_graph, options, rid_fallback_graph, env)} :
          /\ LoaderIs(r)
          /\ rid_fallback_graph' =
                post_process(r.post_processed, parse_file(deps_file).doc, rid_fallback_graph)
    /\ pc' = "done"
    /\ mode' = "self_contained"
    /\ UNCHANGED <<deps_file, options, env, call, ret, hash_order, iter>>

Next == create_for_framework_dependent \/ create_for_self_contained

Spec == Init /\ [][Next]_vars

----------------------------------------------------------------------------
(* SpecLoaded: load_framework_dependent / load_self_contained are run on a parsed  *)
(* document (the state of load once parse_file has returned true and the target    *)
(* name has been read)                                                             *)

InitLoaded ==
    /\ \/ \E g \in GenericChoices, cs \in SeqsUpTo(RtChoices, MaxRtEntries), o \in LibraryOrders :
             deps_file = [exists |-> TRUE, wellformed |-> TRUE,
                          doc |-> ObjectDoc("object", g, cs, o, RuntimesWin)]
       \/ \E doc \in ShapeDocs :
             deps_file = [exists |-> TRUE, wellformed |-> TRUE, doc |-> doc]
    /\ \E h \in HostConfigs :
          options = h.options /\ rid_fallback_graph = h.graph /\ env = h.env
    /\ m_file_exists = TRUE
    /\ m_valid = TRUE
    /\ m_rid_assets = EmptyMap
    /\ m_assets = EmptyMap
    /\ m_deps_entries = EmptyTypes
    /\ pc = "parsed"
    /\ mode = "none"
    /\ outcome = "none"
    /\ parse_result = "true"
    /\ steps = <<"deps_file_exists", "parse_file">>
    /\ rid_extracted = EmptyMap
    /\ call = NoCall
    /\ ret = NoRet
    /\ hash_order = RidOrder
    /\ iter = 0

\* the rest of load: the mode's method, then the callback unless the method threw
LoadedIs(r, has_post_process) ==
    /\ m_rid_assets' = r.m_rid_assets
    /\ m_assets' = r.m_assets
    /\ m_deps_entries' = r.m_deps_entries
    /\ outcome' = (IF r.threw THEN "threw" ELSE "returned")
    /\ steps' = steps \o r.steps
                 \o (IF has_post_process /\ ~r.threw THEN <<"post_process">> ELSE <<>>)
    /\ rid_extracted' = r.rid_extracted
    /\ rid_fallback_graph' =
          IF r.threw THEN rid_fallback_graph
          ELSE post_process(has_post_process, deps_file.doc, rid_fallback_graph)
    /\ pc' = "done"
    /\ UNCHANGED <<deps_file, options, env, m_file_exists, m_valid,
                   parse_result, call, ret, hash_order, iter>>

LoaderState == [m_rid_assets |-> m_rid_assets, m_assets |-> m_assets,
                m_deps_entries |-> m_deps_entries]

LoadFrameworkDependent ==
    /\ pc = "parsed"
    /\ \E r \in {load_framework_dependent(deps_file.doc, deps_file.doc.runtimeTarget.name,
                                          LoaderState, options, rid_fallback_graph, env)} :
          LoadedIs(r, FALSE)
    /\ mode' = "framework_dependent"

\* create_for_self_contained passes the callback with use_fallback_graph, and then the
\* graph it is given is not null and empty (the assert)
LoadSelfContained ==
    /\ pc = "parsed"
    /\ options.use_fallback_graph => rid_fallback_graph = EmptyMap
    /\ \E r \in {load_self_contained(deps_file.doc, deps_file.doc.runtimeTarget.name, LoaderState)} :
          LoadedIs(r, options.use_fallback_graph)
    /\ mode' = "self_contained"

NextLoaded == LoadFrameworkDependent \/ LoadSelfContained

SpecLoaded == InitLoaded /\ [][NextLoaded]_vars

----------------------------------------------------------------------------
(* SpecMeta: the rest of load after parse_file returned true, on manifests whose     *)
(* `runtimeTarget` and library metadata may be missing: the target name is read,     *)
(* then the mode's method and the callback run                                       *)

\* the `serviceable` and `type` members of one library: present or missing
MetaChoices == [serviceable : {"true", "absent"}, has_type : BOOLEAN]

\* runtimeTarget: a string, an object with a string `name`, an object without, or absent
RuntimeTargetShapes ==
    {[shape |-> "string", has_name |-> FALSE, name |-> TargetName],
     [shape |-> "object", has_name |-> TRUE, name |-> TargetName],
     [shape |-> "object", has_name |-> FALSE, name |-> ""],
     [shape |-> "absent", has_name |-> FALSE, name |-> ""]}

MetaLibrary(key, meta) ==
    [Library(key) EXCEPT !.serviceable = meta[key].serviceable, !.has_type = meta[key].has_type]

MetaDoc(rt, generic, cs, meta) ==
    [ObjectDoc("object", generic, cs, <<"A/1", "B/2">>, RuntimesWin) EXCEPT
        !.runtimeTarget = rt,
        !.libraries = Section(<<MetaLibrary("A/1", meta), MetaLibrary("B/2", meta)>>)]

MetaHostConfigs ==
    {[options |-> [use_fallback_graph |-> FALSE], graph |-> GraphWin, env |-> e] : e \in Envs}
    \cup {[options |-> [use_fallback_graph |-> TRUE], graph |-> EmptyMap, env |-> e] : e \in Envs}

InitMeta ==
    /\ \E rt \in RuntimeTargetShapes, g \in GenericChoices, cs \in SeqsUpTo(RtChoices, 1),
          meta \in [Libs -> MetaChoices] :
          deps_file = [exists |-> TRUE, wellformed |-> TRUE, doc |-> MetaDoc(rt, g, cs, meta)]
    /\ \E h \in MetaHostConfigs :
          options = h.options /\ rid_fallback_graph = h.graph /\ env = h.env
    /\ m_file_exists = TRUE
    /\ m_valid = TRUE
    /\ m_rid_assets = EmptyMap
    /\ m_assets = EmptyMap
    /\ m_deps_entries = EmptyTypes
    /\ pc = "parsed"
    /\ mode = "none"
    /\ outcome = "none"
    /\ parse_result = "true"
    /\ steps = <<"deps_file_exists", "parse_file">>
    /\ rid_extracted = EmptyMap
    /\ call = NoCall
    /\ ret = NoRet
    /\ hash_order = RidOrder
    /\ iter = 0

\* .get_string().value() of a runtimeTarget that is no string and has no string `name`
\* throws before any member of the loader is touched
TargetNameNotFound ==
    /\ outcome' = "threw"
    /\ pc' = "done"
    /\ UNCHANGED <<deps_file, options, rid_fallback_graph, env, m_file_exists, m_valid,
                   m_rid_assets, m_assets, m_deps_entries, parse_result, steps,
                   rid_extracted, call, ret, hash_order, iter>>

LoadParsedFrameworkDependent ==
    /\ pc = "parsed"
    /\ mode' = "framework_dependent"
    /\ \E name \in {runtime_target_name(deps_file.doc)} :
          IF ~name.found THEN TargetNameNotFound
          ELSE \E r \in {load_framework_dependent(deps_file.doc, name.name, LoaderState,
                                                   options, rid_fallback_graph, env)} :
                  LoadedIs(r, FALSE)

LoadParsedSelfContained ==
    /\ pc = "parsed"
    /\ options.use_fallback_graph => rid_fallback_graph = EmptyMap
    /\ mode' = "self_contained"
    /\ \E name \in {runtime_target_name(deps_file.doc)} :
          IF ~name.found THEN TargetNameNotFound
          ELSE \E r \in {load_self_contained(deps_file.doc, name.name, LoaderState)} :
                  LoadedIs(r, options.use_fallback_graph)

NextMeta == LoadParsedFrameworkDependent \/ LoadParsedSelfContained

SpecMeta == InitMeta /\ [][NextMeta]_vars

----------------------------------------------------------------------------
(* SpecTwice: a parsed manifest is loaded, and loaded again by a new deps_json_t in  *)
(* a process whose hash maps iterate in another order; the members keep the result   *)
(* of the first load until the second one writes its own                             *)

Reverse(seq) == [k \in 1..Len(seq) |-> seq[Len(seq) + 1 - k]]
HashOrders == {RidOrder, Reverse(RidOrder)}

\* runtimeTargets entries of one library and one category under the RIDs of RtRids
TwiceChoices == [lib : {"A/1"}, assetType : {"runtime"}, rid : RtRids]

InitTwice ==
    /\ \E g \in GenericChoices, cs \in SeqsUpTo(TwiceChoices, MaxRtEntries) :
          deps_file = [exists |-> TRUE, wellformed |-> TRUE,
                       doc |-> ObjectDoc("object", g, cs, <<"A/1", "B/2">>, RuntimesWin)]
    /\ \E h \in HostConfigs :
          options = h.options /\ rid_fallback_graph = h.graph /\ env = h.env
    /\ m_file_exists = TRUE
    /\ m_valid = TRUE
    /\ m_rid_assets = EmptyMap
    /\ m_assets = EmptyMap
    /\ m_deps_entries = EmptyTypes
    /\ pc = "parsed"
    /\ mode = "none"
    /\ outcome = "none"
    /\ parse_result = "true"
    /\ steps = <<"deps_file_exists", "parse_file">>
    /\ rid_extracted = EmptyMap
    /\ call = NoCall
    /\ ret = NoRet
    /\ hash_order = RidOrder
    /\ iter = 0

\* another process: its unordered_maps iterate in an order of their own
Restart ==
    /\ pc = "done"
    /\ outcome = "returned"
    /\ hash_order' \in HashOrders
    /\ pc' = "restarted"
    /\ UNCHANGED <<deps_file, options, rid_fallback_graph, env, m_file_exists, m_valid,
                   m_rid_assets, m_assets, m_deps_entries, mode, outcome, parse_result,
                   steps, rid_extracted, call, ret, iter>>

NewState == [m_rid_assets |-> EmptyMap, m_assets |-> EmptyMap, m_deps_entries |-> EmptyTypes]

\* a new deps_json_t loads the same manifest in the same mode
LoadAgain ==
    /\ pc = "restarted"
    /\ (mode = "self_contained" /\ options.use_fallback_graph) => rid_fallback_graph = EmptyMap
    /\ \E r \in {IF mode = "framework_dependent"
                  THEN load_framework_dependent(deps_file.doc, deps_file.doc.runtimeTarget.name,
                                                NewState, options, rid_fallback_graph, env)
                  ELSE load_self_contained(deps_file.doc, deps_file.doc.runtimeTarget.name,
                                           NewState)} :
          \E has_post_process \in {mode = "self_contained" /\ options.use_fallback_graph} :
             /\ m_rid_assets' = r.m_rid_assets
             /\ m_assets' = r.m_assets
             /\ m_deps_entries' = r.m_deps_entries
             /\ outcome' = (IF r.threw THEN "threw" ELSE "returned")
             /\ steps' = <<"deps_file_exists", "parse_file">> \o r.steps
                          \o (IF has_post_process /\ ~r.threw THEN <<"post_process">> ELSE <<>>)
             /\ rid_extracted' = r.rid_extracted
             /\ rid_fallback_graph' =
                   IF r.threw THEN rid_fallback_graph
                   ELSE post_process(has_post_process, deps_file.doc, rid_fallback_graph)
    /\ pc' = "again"
    /\ UNCHANGED <<deps_file, options, env, m_file_exists, m_valid, mode,
                   parse_result, call, ret, hash_order, iter>>

NextTwice == LoadFrameworkDependent \/ LoadSelfContained \/ Restart \/ LoadAgain

SpecTwice == InitTwice /\ [][NextTwice]_vars

----------------------------------------------------------------------------
(* SpecMatch: one RID bucket map is resolved in graph mode against a drawn graph *)

MatchRids == {"win-x64", "win", "any"}
MatchGraphKeys == {"win-x64", "win"}

BucketMap(keys) == [r \in keys |-> <<deps_asset_t(r, "rt/" \o r \o "/a.dll")>>]

GraphMode == [use_fallback_graph |-> TRUE]

InitMatch ==
    /\ \E keys \in SUBSET MatchRids, host \in MatchRids, D \in SUBSET MatchGraphKeys :
          \E graph \in [D -> SeqsUpTo(MatchRids, MaxFallbacks)] :
             call = [rid_assets |-> BucketMap(keys), host_rid |-> host, graph |-> graph]
    /\ ret = NoRet
    /\ pc = "call"
    /\ deps_file = AbsentFile
    /\ options = GraphMode
    /\ rid_fallback_graph = EmptyMap
    /\ env \in Envs
    /\ m_file_exists = FALSE
    /\ m_valid = FALSE
    /\ m_rid_assets = EmptyMap
    /\ m_assets = EmptyMap
    /\ m_deps_entries = EmptyTypes
    /\ mode = "none"
    /\ outcome = "none"
    /\ parse_result = "none"
    /\ steps = <<>>
    /\ rid_extracted = EmptyMap
    /\ hash_order = RidOrder
    /\ iter = 0

\* ret.found / ret.out_rid are what try_get_matching_rid_with_fallback_graph returns;
\* ret.rid_assets is the bucket map as the loop body of perform_rid_fallback leaves it
ResolveBucketMap ==
    /\ pc = "call"
    /\ \E m \in {try_get_matching_rid_with_fallback_graph(call.rid_assets, call.host_rid, call.graph)} :
          ret' = [found |-> m.found, out_rid |-> m.out_rid,
                  rid_assets |-> filter_rid_assets(call.rid_assets, options, call.host_rid,
                                                   call.graph, env)]
    /\ pc' = "done"
    /\ UNCHANGED <<deps_file, options, rid_fallback_graph, env, m_file_exists, m_valid,
                   m_rid_assets, m_assets, m_deps_entries, mode, outcome, parse_result,
                   steps, rid_extracted, call, hash_order, iter>>

NextMatch == ResolveBucketMap

SpecMatch == InitMatch /\ [][NextMatch]_vars

----------------------------------------------------------------------------
(* SpecStatic: one RID bucket map is resolved in static-list mode *)

StaticRids == {"custom-rid", "ubuntu-x64", "ubuntu", "linux-x64", "linux", "unix-x64", "unix",
               "any", "win-x64"}
StaticOverrides == {"", "custom-rid", "linux-x64", "any", "win-x64"}

StaticMode == [use_fallback_graph |-> FALSE]

InitStatic ==
    /\ \E keys \in SUBSET StaticRids :
          call = [rid_assets |-> BucketMap(keys), host_rid |-> "", graph |-> EmptyMap]
    /\ \E rid \in StaticOverrides : env = [rid_env |-> rid, os_rid_platform |-> "ubuntu"]
    /\ ret = NoRet
    /\ pc = "call"
    /\ deps_file = AbsentFile
    /\ options = StaticMode
    /\ rid_fallback_graph = EmptyMap
    /\ m_file_exists = FALSE
    /\ m_valid = FALSE
    /\ m_rid_assets = EmptyMap
    /\ m_assets = EmptyMap
    /\ m_deps_entries = EmptyTypes
    /\ mode = "none"
    /\ outcome = "none"
    /\ parse_result = "none"
    /\ steps = <<>>
    /\ rid_extracted = EmptyMap
    /\ hash_order = RidOrder
    /\ iter = 0

\* ret.found / ret.out_rid are what try_get_matching_rid returns; ret.rid_assets is
\* the bucket map as the loop body of perform_rid_fallback leaves it
ResolveBucketMapStatic ==
    /\ pc = "call"
    /\ \E m \in {try_get_matching_rid(call.rid_assets, env)} :
          ret' = [found |-> m.found, out_rid |-> m.out_rid,
                  rid_assets |-> filter_rid_assets(call.rid_assets, options, call.host_rid,
                                                   call.graph, env)]
    /\ pc' = "done"
    /\ UNCHANGED <<deps_file, options, rid_fallback_graph, env, m_file_exists, m_valid,
                   m_rid_assets, m_assets, m_deps_entries, mode, outcome, parse_result,
                   steps, rid_extracted, call, hash_order, iter>>

NextStatic == ResolveBucketMapStatic

SpecStatic == InitStatic /\ [][NextStatic]_vars

----------------------------------------------------------------------------
(* SpecHost: perform_rid_fallback is run in graph mode on an extracted map, with a   *)
(* drawn graph, environment override and OS-reported platform                        *)

HostRids == {"ubuntu-x64", "linux-x64", "any"}

\* a graph that knows the baseline and not the OS-reported platform
GraphLinux == [r \in {"linux-x64"} |-> <<"any">>]

HostGraphs == {EmptyMap, GraphWin, GraphUbuntu, GraphLinux}
HostEnvs == [rid_env : {"", "win-x64"}, os_rid_platform : {"", "ubuntu"}]

\* the map process_runtime_targets has extracted: RID buckets for the runtime and
\* native assets of A/1 and the runtime assets of B/2
ExtractedMap(a_runtime, a_native, b_runtime) ==
    [l \in Libs |->
        [i \in AssetTypeIdx |->
            BucketMap(IF l = "A/1" /\ i = 0 THEN a_runtime
                      ELSE IF l = "A/1" /\ i = 2 THEN a_native
                      ELSE IF l = "B/2" /\ i = 0 THEN b_runtime
                      ELSE {})]]

InitHost ==
    /\ \E a_runtime, a_native, b_runtime \in SUBSET HostRids :
          /\ rid_extracted = ExtractedMap(a_runtime, a_native, b_runtime)
          /\ m_rid_assets = rid_extracted
    /\ rid_fallback_graph \in HostGraphs
    /\ env \in HostEnvs
    /\ options = GraphMode
    /\ deps_file = [exists |-> TRUE, wellformed |-> TRUE, doc |-> BaseDoc]
    /\ m_file_exists = TRUE
    /\ m_valid = TRUE
    /\ m_assets = EmptyMap
    /\ m_deps_entries = EmptyTypes
    /\ pc = "built"
    /\ mode = "framework_dependent"
    /\ outcome = "none"
    /\ parse_result = "true"
    /\ steps = <<"deps_file_exists", "parse_file", "process_runtime_targets">>
    /\ call = NoCall
    /\ ret = NoRet
    /\ hash_order = RidOrder
    /\ iter = 0

\* call.host_rid is the local host_rid of perform_rid_fallback
PerformRidFallback ==
    /\ pc = "built"
    /\ call' = [call EXCEPT !.host_rid =
                   IF options.use_fallback_graph
                   THEN get_current_machine_rid(rid_fallback_graph, TRUE, env)
                   ELSE ""]
    /\ m_rid_assets' = perform_rid_fallback(m_rid_assets, options, rid_fallback_graph, env)
    /\ steps' = Append(steps, "perform_rid_fallback")
    /\ pc' = "done"
    /\ UNCHANGED <<deps_file, options, rid_fallback_graph, env, m_file_exists, m_valid,
                   m_assets, m_deps_entries, mode, outcome, parse_result,
                   rid_extracted, ret, hash_order, iter>>

NextHost == PerformRidFallback

SpecHost == InitHost /\ [][NextHost]_vars

----------------------------------------------------------------------------
(* SpecScan: try_get_matching_rid_with_fallback_graph is run step by step on one     *)
(* RID bucket map: the exact match, the lookup of the host RID in the graph, then    *)
(* std::find_if over the fallback list, one element a step                           *)

\* faulty variant: the lists of the RIDs listed are walked after the host RID's own
fallback_list_transitive(host_rid, graph) ==
    LET own == graph[host_rid]
        RECURSIVE lists_of(_)
        lists_of(rids) ==
            IF rids = <<>> THEN <<>>
            ELSE (IF Head(rids) \in DOMAIN graph THEN graph[Head(rids)] ELSE <<>>)
                 \o lists_of(Tail(rids))
    IN own \o lists_of(own)

\* rid_fallback_iter->second: the list find_if walks
fallback_list(host_rid, graph) == graph[host_rid]

\* what the loop body of perform_rid_fallback leaves of the bucket map
erase_unmatched(rid_assets, found_match, matched_rid) ==
    IF ~found_match THEN EmptyMap
    ELSE [r \in {k \in DOMAIN rid_assets : k = matched_rid} |-> rid_assets[r]]

ScanResult(found_match, matched_rid) ==
    [found |-> found_match, out_rid |-> matched_rid,
     rid_assets |-> erase_unmatched(call.rid_assets, found_match, matched_rid)]

InitScan ==
    /\ \E keys \in SUBSET MatchRids, host \in MatchRids, D \in SUBSET MatchGraphKeys :
          \E graph \in [D -> SeqsUpTo(MatchRids, MaxFallbacks)] :
             call = [rid_assets |-> BucketMap(keys), host_rid |-> host, graph |-> graph]
    /\ ret = NoRet
    /\ pc = "call"
    /\ deps_file = AbsentFile
    /\ options = GraphMode
    /\ rid_fallback_graph = EmptyMap
    /\ env = [rid_env |-> "", os_rid_platform |-> "ubuntu"]
    /\ m_file_exists = FALSE
    /\ m_valid = FALSE
    /\ m_rid_assets = EmptyMap
    /\ m_assets = EmptyMap
    /\ m_deps_entries = EmptyTypes
    /\ mode = "none"
    /\ outcome = "none"
    /\ parse_result = "none"
    /\ steps = <<>>
    /\ rid_extracted = EmptyMap
    /\ hash_order = RidOrder
    /\ iter = 0

ScanUnchanged ==
    UNCHANGED <<deps_file, options, rid_fallback_graph, env, m_file_exists, m_valid,
                m_rid_assets, m_assets, m_deps_entries, mode, outcome, parse_result,
                steps, rid_extracted, call, hash_order>>

\* the exact match with the host RID, then the lookup of the host RID in the graph
ScanBegin ==
    /\ pc = "call"
    /\ IF call.host_rid \in DOMAIN call.rid_assets
       THEN ret' = ScanResult(TRUE, call.host_rid) /\ pc' = "done" /\ iter' = iter
       ELSE IF call.host_rid \notin DOMAIN call.graph
       THEN ret' = ScanResult(FALSE, "") /\ pc' = "done" /\ iter' = iter
       ELSE ret' = ret /\ pc' = "scan" /\ iter' = 1
    /\ ScanUnchanged

\* one step of find_if: the end of the list, an element that is a bucket key, or the
\* next element
ScanStep ==
    /\ pc = "scan"
    /\ LET fallback_rids == fallback_list(call.host_rid, call.graph)
       IN IF iter > Len(fallback_rids)
          THEN ret' = ScanResult(FALSE, "") /\ pc' = "done" /\ iter' = iter
          ELSE IF fallback_rids[iter] \in DOMAIN call.rid_assets
          THEN ret' = ScanResult(TRUE, fallback_rids[iter]) /\ pc' = "done" /\ iter' = iter
          ELSE ret' = ret /\ pc' = "scan" /\ iter' = iter + 1
    /\ ScanUnchanged

NextScan == ScanBegin \/ ScanStep

\* the scan is the only thread of control: it takes its next step until it returns
SpecScan == InitScan /\ [][NextScan]_vars /\ WF_vars(NextScan)

----------------------------------------------------------------------------
(* SpecExtract: process_runtime_targets is run on a parsed manifest whose             *)
(* runtimeTargets entries are drawn with every shape the method tests                 *)

\* what holds of every loader whose load has parsed the manifest and read the target name
ParsedState ==
    /\ m_file_exists = TRUE
    /\ m_valid = TRUE
    /\ m_rid_assets = EmptyMap
    /\ m_assets = EmptyMap
    /\ m_deps_entries = EmptyTypes
    /\ pc = "parsed"
    /\ mode = "none"
    /\ outcome = "none"
    /\ parse_result = "true"
    /\ steps = <<"deps_file_exists", "parse_file">>
    /\ rid_extracted = EmptyMap
    /\ call = NoCall
    /\ ret = NoRet
    /\ hash_order = RidOrder
    /\ iter = 0

\* assetType strings: the known names in several letter cases, and an unknown one
ExtractTypes == {"runtime", "Runtime", "NATIVE", "resources", "other"}
ExtractRids == {"win-x64", "win"}

\* one runtimeTargets entry to draw: well shaped, or with one member missing or of
\* another type, or no object at all
ExtractChoices ==
    [lib : Libs, shape : {"object"}, type_shape : {"string"}, assetType : ExtractTypes,
     rid_shape : {"string"}, rid : ExtractRids]
    \cup [lib : Libs, shape : {"other"}, type_shape : {"absent"}, assetType : {""},
          rid_shape : {"absent"}, rid : {""}]
    \cup [lib : Libs, shape : {"object"}, type_shape : {"absent", "other"}, assetType : {""},
          rid_shape : {"string"}, rid : {"win-x64"}]
    \cup [lib : Libs, shape : {"object"}, type_shape : {"string"}, assetType : {"runtime"},
          rid_shape : {"absent", "other"}, rid : {""}]

ExtractFile(i, c) ==
    [key |-> RtFileNames[i], shape |-> c.shape, type_shape |-> c.type_shape,
     assetType |-> c.assetType, rid_shape |-> c.rid_shape, rid |-> c.rid]

RECURSIVE ExtractFilesOf(_, _, _)
ExtractFilesOf(lib, cs, i) ==
    IF i > Len(cs) THEN <<>>
    ELSE (IF cs[i].lib = lib THEN <<ExtractFile(i, cs[i])>> ELSE <<>>)
         \o ExtractFilesOf(lib, cs, i + 1)

ExtractPackage(lib, cs) ==
    [key |-> lib, shape |-> "object", files |-> NoFiles,
     has_runtimeTargets |-> (ExtractFilesOf(lib, cs, 1) # <<>>),
     runtimeTargets |-> ExtractFilesOf(lib, cs, 1)]

ExtractDoc(cs) ==
    [BaseDoc EXCEPT !.targets =
        Section(<<[key |-> TargetName, shape |-> "object",
                   packages |-> SelectSeq([i \in 1..Len(PackageOrder) |->
                                              ExtractPackage(PackageOrder[i], cs)],
                                          LAMBDA pk : pk.has_runtimeTargets)]>>)]

InitExtract ==
    /\ \E cs \in SeqsUpTo(ExtractChoices, MaxRtEntries) :
          deps_file = [exists |-> TRUE, wellformed |-> TRUE, doc |-> ExtractDoc(cs)]
    /\ options = GraphMode
    /\ rid_fallback_graph = GraphWin
    /\ env = [rid_env |-> "win-x64", os_rid_platform |-> "ubuntu"]
    /\ ParsedState

\* process_runtime_targets as load_framework_dependent calls it
ProcessRuntimeTargets ==
    /\ pc = "parsed"
    /\ \E r \in {process_runtime_targets(deps_file.doc, deps_file.doc.runtimeTarget.name,
                                         m_rid_assets, options, rid_fallback_graph, env)} :
          /\ m_rid_assets' = r.assets
          /\ rid_extracted' = r.extracted
          /\ steps' = steps \o <<"process_runtime_targets">>
                       \o (IF r.resolved THEN <<"perform_rid_fallback">> ELSE <<>>)
    /\ pc' = "done"
    /\ mode' = "framework_dependent"
    /\ UNCHANGED <<deps_file, options, rid_fallback_graph, env, m_file_exists, m_valid,
                   m_assets, m_deps_entries, outcome, parse_result, call, ret,
                   hash_order, iter>>

NextExtract == ProcessRuntimeTargets

SpecExtract == InitExtract /\ [][NextExtract]_vars

----------------------------------------------------------------------------
(* SpecGraph: the graph is built from a drawn `runtimes` section, by                  *)
(* populate_rid_fallback_graph on the parsed document or by get_rid_fallback_graph    *)
(* on the file, and process_runtime_targets then resolves with it in graph mode.      *)
(* One document stands for the manifest that brings `runtimes` and the one that       *)
(* brings `targets`: the first method reads `runtimes` only, the second `targets`.    *)

\* the elements of a fallback array: two RID strings and a value that is no string
GraphElems == {[is_string |-> TRUE, str |-> "linux-x64"], [is_string |-> TRUE, str |-> "any"],
               [is_string |-> FALSE, str |-> ""]}

\* the value of one RID key of `runtimes`: no such key, a value that is no array, an array
GraphValues ==
    {[present |-> FALSE, is_array |-> FALSE, elems |-> <<>>],
     [present |-> TRUE, is_array |-> FALSE, elems |-> <<>>]}
    \cup [present : {TRUE}, is_array : {TRUE}, elems : SeqsUpTo(GraphElems, MaxFallbacks)]

GraphMember(key, v) ==
    IF v.present THEN <<[key |-> key, is_array |-> v.is_array, elems |-> v.elems]>> ELSE <<>>

\* the RIDs under which library A/1 declares a runtime file, in this order
HostRidOrder == <<"ubuntu-x64", "linux-x64", "any">>

RidFiles(rids) ==
    SelectSeq([k \in 1..Len(HostRidOrder) |->
                  [key |-> RtFileNames[k], shape |-> "object", type_shape |-> "string",
                   assetType |-> "runtime", rid_shape |-> "string", rid |-> HostRidOrder[k]]],
              LAMBDA f : f.rid \in rids)

GraphDoc(platform_value, baseline_value, rids) ==
    [BaseDoc EXCEPT
        !.runtimes = Section(GraphMember("ubuntu-x64", platform_value)
                             \o GraphMember("linux-x64", baseline_value)),
        !.targets = Section(<<[key |-> TargetName, shape |-> "object",
                               packages |-> <<[key |-> "A/1", shape |-> "object",
                                               files |-> NoFiles,
                                               has_runtimeTargets |-> TRUE,
                                               runtimeTargets |-> RidFiles(rids)]>>]>>)]

InitGraph ==
    /\ \E platform_value, baseline_value \in GraphValues, rids \in SUBSET HostRids :
          deps_file = [exists |-> TRUE, wellformed |-> TRUE,
                       doc |-> GraphDoc(platform_value, baseline_value, rids)]
    /\ options = GraphMode
    /\ rid_fallback_graph = EmptyMap
    /\ env = [rid_env |-> "", os_rid_platform |-> "ubuntu"]
    /\ m_file_exists = TRUE
    /\ m_valid = TRUE
    /\ m_rid_assets = EmptyMap
    /\ m_assets = EmptyMap
    /\ m_deps_entries = EmptyTypes
    /\ pc = "graph"
    /\ mode = "none"
    /\ outcome = "none"
    /\ parse_result = "none"
    /\ steps = <<>>
    /\ rid_extracted = EmptyMap
    /\ call = NoCall
    /\ ret = NoRet
    /\ hash_order = RidOrder
    /\ iter = 0

GraphUnchanged ==
    UNCHANGED <<deps_file, options, env, m_file_exists, m_valid, m_rid_assets, m_assets,
                m_deps_entries, mode, outcome, rid_extracted, call, ret, hash_order, iter>>

\* populate_rid_fallback_graph on the document once it is parsed, into an empty graph
PopulateRidFallbackGraph ==
    /\ pc = "graph"
    /\ rid_fallback_graph' = populate_rid_fallback_graph(deps_file.doc, rid_fallback_graph)
    /\ parse_result' = "true"
    /\ steps' = <<"deps_file_exists", "parse_file", "populate_rid_fallback_graph">>
    /\ pc' = "parsed"
    /\ GraphUnchanged

\* get_rid_fallback_graph on the file: populate_rid_fallback_graph runs when parse_file
\* returned true
GetRidFallbackGraph ==
    /\ pc = "graph"
    /\ rid_fallback_graph' = get_rid_fallback_graph(deps_file)
    /\ parse_result' = (IF parse_file(deps_file).ok THEN "true" ELSE "false")
    /\ steps' = <<"deps_file_exists", "parse_file">>
                 \o (IF parse_file(deps_file).ok THEN <<"populate_rid_fallback_graph">> ELSE <<>>)
    /\ pc' = "parsed"
    /\ GraphUnchanged

NextGraph == PopulateRidFallbackGraph \/ GetRidFallbackGraph \/ ProcessRuntimeTargets

SpecGraph == InitGraph /\ [][NextGraph]_vars

----------------------------------------------------------------------------
(* SpecKeys: the two load modes are run on a parsed manifest whose library keys have  *)
(* one "/", none, or two                                                              *)

KeyOrder == <<"A/1", "Foo", "A/1/x">>
KeyLibs == {KeyOrder[k] : k \in 1..Len(KeyOrder)}

KeyPackage(key, generic_keys, rid_keys) ==
    [key |-> key, shape |-> "object",
     files |-> IF key \in generic_keys THEN Files1(0, <<"lib/B.dll">>) ELSE NoFiles,
     has_runtimeTargets |-> (key \in rid_keys),
     runtimeTargets |-> IF key \in rid_keys
                        THEN <<RtFile(2, [assetType |-> "runtime", rid |-> "win-x64"])>>
                        ELSE <<>>]

KeyDoc(generic_keys, rid_keys) ==
    [BaseDoc EXCEPT
        !.targets = Section(<<[key |-> TargetName, shape |-> "object",
                               packages |-> SelectSeq([k \in 1..Len(KeyOrder) |->
                                                          KeyPackage(KeyOrder[k], generic_keys, rid_keys)],
                                                      LAMBDA pk : pk.files # NoFiles
                                                                  \/ pk.has_runtimeTargets)]>>),
        !.libraries = Section(Libraries(KeyOrder))]

InitKeys ==
    /\ \E generic_keys, rid_keys \in SUBSET KeyLibs :
          deps_file = [exists |-> TRUE, wellformed |-> TRUE, doc |-> KeyDoc(generic_keys, rid_keys)]
    /\ \E h \in HostConfigs :
          options = h.options /\ rid_fallback_graph = h.graph /\ env = h.env
    /\ ParsedState

NextKeys == LoadFrameworkDependent \/ LoadSelfContained

SpecKeys == InitKeys /\ [][NextKeys]_vars

----------------------------------------------------------------------------
(* SpecBom: parse_file looks for a UTF-8 byte-order mark at the start of the mapped   *)
(* file before it hands the data to parse_raw_data.  A file is the sequence of its    *)
(* bytes, 0..255; whether plain char is signed is a property of the build.            *)

\* the bytes EF BB BF
Utf8Bom == <<239, 187, 191>>

\* the bytes drawn: the three of the mark and "{"
FileBytes == {239, 187, 191, 123}

\* data[k] as the comparison sees it: a char promoted to int
char_value(byte, char_is_signed) ==
    IF char_is_signed /\ byte >= 128 THEN byte - 256 ELSE byte

\* [offset, size] of the data handed to parse_raw_data; data[0] and data[1] of the
\* code are data[1] and data[2] here
skip_bom(data, size, char_is_signed) ==
    IF /\ size >= 3
       /\ char_value(data[1], char_is_signed) = 239
       /\ char_value(data[2], char_is_signed) = 187
       /\ char_value(data[2], char_is_signed) = 191
    THEN [offset |-> 3, size |-> size - 3]
    ELSE [offset |-> 0, size |-> size]

InitBom ==
    /\ \E data \in SeqsUpTo(FileBytes, MaxFileLen), char_is_signed \in BOOLEAN :
          call = [data |-> data, size |-> Len(data), char_is_signed |-> char_is_signed]
    /\ ret = NoRet
    /\ pc = "call"
    /\ deps_file = [exists |-> TRUE, wellformed |-> FALSE, doc |-> ScalarDoc("null")]
    /\ options = StaticMode
    /\ rid_fallback_graph = EmptyMap
    /\ env = [rid_env |-> "", os_rid_platform |-> "ubuntu"]
    /\ m_file_exists = TRUE
    /\ m_valid = FALSE
    /\ m_rid_assets = EmptyMap
    /\ m_assets = EmptyMap
    /\ m_deps_entries = EmptyTypes
    /\ mode = "none"
    /\ outcome = "none"
    /\ parse_result = "none"
    /\ steps = <<"deps_file_exists">>
    /\ rid_extracted = EmptyMap
    /\ hash_order = RidOrder
    /\ iter = 0

\* ret is the data parse_file hands to parse_raw_data
SkipBom ==
    /\ pc = "call"
    /\ ret' = skip_bom(call.data, call.size, call.char_is_signed)
    /\ steps' = Append(steps, "parse_file")
    /\ pc' = "done"
    /\ UNCHANGED <<deps_file, options, rid_fallback_graph, env, m_file_exists, m_valid,
                   m_rid_assets, m_assets, m_deps_entries, mode, outcome, parse_result,
                   rid_extracted, call, hash_order, iter>>

NextBom == SkipBom

SpecBom == InitBom /\ [][NextBom]_vars

----------------------------------------------------------------------------
(* Properties *)

Json == deps_file.doc
Done == pc = "done"
FrameworkDependentDone == pc = "done" /\ mode = "framework_dependent"
SelfContainedDone == pc = "done" /\ mode = "self_contained"

NoEntries == \A i \in AssetTypeIdx : m_deps_entries[i] = <<>>
SomeEntries == \E i \in AssetTypeIdx : m_deps_entries[i] # <<>>

Names == {"A", "B"}
Versions == {"1", "2"}
NoPackages == \A name \in Names, ver \in Versions : ~has_package(name, ver, m_rid_assets, m_assets)

ExtractionSteps == {"process_runtime_targets", "perform_rid_fallback", "process_targets",
                    "reconcile", "post_process"}
Ran(step) == \E k \in 1..Len(steps) : steps[k] = step

LibraryKeys == {Json.libraries.members[k].key : k \in 1..Len(Json.libraries.members)}
AssetLibs == DOMAIN m_rid_assets \cup DOMAIN m_assets
EntryKey(entry) == entry.library_name \o "/" \o entry.library_version
EntriesOf(lib, i) == SelectSeq(m_deps_entries[i], LAMBDA entry : EntryKey(entry) = lib)
EntryPaths(lib, i) == [k \in 1..Len(EntriesOf(lib, i)) |-> EntriesOf(lib, i)[k].asset.relative_path]
Paths(assets) == [k \in 1..Len(assets) |-> assets[k].relative_path]
RidSide(lib, i) == IF lib \in DOMAIN m_rid_assets THEN m_rid_assets[lib][i] ELSE EmptyMap
GenericSide(lib, i) == IF lib \in DOMAIN m_assets THEN m_assets[lib][i] ELSE <<>>
DeclaresRuntimeTargets ==
    \E t \in 1..Len(Json.targets.members) :
        \E k \in 1..Len(Json.targets.members[t].packages) :
            Json.targets.members[t].packages[k].has_runtimeTargets

\* C1: a load is rejected as malformed exactly when the text fails to parse or its root
\* is not an object: for a well-formed text with an object root parse_file returns true
\* and load ends valid, for a well-formed text with another root it returns false and
\* load ends invalid, and a text that is not well formed is refused.
C1_RejectedExactlyWhenMalformed ==
    (Done /\ deps_file.exists) =>
        IF deps_file.wellformed /\ Json.kind = "object"
        THEN parse_result = "true" /\ m_valid
        ELSE parse_result = "false" /\ ~m_valid

\* C2: when the manifest file does not exist, load ends valid, every entry list is
\* empty, has_package is false for every name and version, and nothing but the
\* existence probe runs.
C2_AbsentFileIsValidAndEmpty ==
    (Done /\ ~deps_file.exists) =>
        /\ m_valid
        /\ outcome = "returned"
        /\ NoEntries
        /\ NoPackages
        /\ parse_result = "none"
        /\ steps = <<"deps_file_exists">>

C2_Witness == Done /\ ~deps_file.exists /\ m_valid

\* C3: when the manifest file exists and its text is malformed, load ends invalid,
\* every entry list and asset map stays empty, and no extraction, RID resolution or
\* reconciliation step runs.
C3_MalformedFileIsInvalidAndEmpty ==
    (Done /\ deps_file.exists /\ ~deps_file.wellformed) =>
        /\ ~m_valid
        /\ outcome = "returned"
        /\ parse_result = "false"
        /\ NoEntries
        /\ NoPackages
        /\ m_rid_assets = EmptyMap /\ m_assets = EmptyMap
        /\ \A step \in ExtractionSteps : ~Ran(step)

C3_Witness ==
    /\ Done /\ deps_file.exists /\ ~deps_file.wellformed /\ ~m_valid
    /\ Json.kind = "object" /\ DeclaresRuntimeTargets

\* C4: in graph mode, when the bucket map has the host RID as a key, the host RID's
\* bucket is the one selected and the only one kept, whatever the graph holds.
C4_ExactHostRidWins ==
    (Done /\ call.host_rid \in DOMAIN call.rid_assets) =>
        /\ ret.found
        /\ ret.out_rid = call.host_rid
        /\ DOMAIN ret.rid_assets = {call.host_rid}
        /\ ret.rid_assets[call.host_rid] = call.rid_assets[call.host_rid]

\* the host RID is a bucket key and so is the first RID of its fallback list
C4_Witness ==
    /\ Done /\ call.host_rid \in DOMAIN call.rid_assets
    /\ call.host_rid \in DOMAIN call.graph
    /\ call.graph[call.host_rid] # <<>>
    /\ call.graph[call.host_rid][1] \in DOMAIN call.rid_assets
    /\ call.graph[call.host_rid][1] # call.host_rid
    /\ ret.out_rid = call.host_rid

\* C5: in graph mode, when the host RID is no bucket key but is a key of the graph, the
\* selected RID is the earliest element of its fallback list that is a bucket key; when
\* no element is, nothing is selected and the bucket map is cleared.
C5_FirstFallbackWithAssets ==
    (Done /\ call.host_rid \notin DOMAIN call.rid_assets /\ call.host_rid \in DOMAIN call.graph) =>
        LET fallback_rids == call.graph[call.host_rid]
            hits == {j \in 1..Len(fallback_rids) : fallback_rids[j] \in DOMAIN call.rid_assets}
        IN IF hits = {}
           THEN ~ret.found /\ ret.rid_assets = EmptyMap
           ELSE \E j \in hits :
                   /\ \A k \in hits : j <= k
                   /\ ret.found
                   /\ ret.out_rid = fallback_rids[j]
                   /\ DOMAIN ret.rid_assets = {fallback_rids[j]}
                   /\ ret.rid_assets[fallback_rids[j]] = call.rid_assets[fallback_rids[j]]

\* graph win-x64 -> [win, any], assets under win and any, host win-x64: win is selected
C5_Witness ==
    /\ Done /\ call.host_rid = "win-x64"
    /\ DOMAIN call.rid_assets = {"win", "any"}
    /\ "win-x64" \in DOMAIN call.graph
    /\ call.graph["win-x64"] = <<"win", "any">>
    /\ ret.found /\ ret.out_rid = "win"

\* C6: a failed RID match of one (library, category) pair clears that pair's bucket map
\* only: every other pair resolves to what it resolves to when the failing pair's
\* buckets are taken out of the extracted map, and the load returns valid.
C6_FailedMatchClearsOnlyItsPair ==
    FrameworkDependentDone =>
        /\ m_valid
        /\ outcome = "returned"
        /\ \A l \in DOMAIN rid_extracted, i \in AssetTypeIdx :
              (DOMAIN rid_extracted[l][i] # {} /\ DOMAIN RidSide(l, i) = {}) =>
                  LET without == [rid_extracted EXCEPT ![l][i] = EmptyMap]
                      alone == perform_rid_fallback(without, options, rid_fallback_graph, env)
                  IN \A l2 \in DOMAIN rid_extracted, i2 \in AssetTypeIdx :
                        (<<l2, i2>> # <<l, i>>) => RidSide(l2, i2) = alone[l2][i2]

\* one category of a library fails to match while a sibling category of it resolves
C6_Witness ==
    /\ FrameworkDependentDone
    /\ \E l \in DOMAIN rid_extracted : \E i, i2 \in AssetTypeIdx :
          /\ i # i2
          /\ DOMAIN rid_extracted[l][i] # {} /\ DOMAIN RidSide(l, i) = {}
          /\ DOMAIN RidSide(l, i2) # {}
          /\ \E k \in 1..Len(m_deps_entries[i2]) : m_deps_entries[i2][k].is_rid_specific

\* the RID perform_rid_fallback matches for a bucket map
MatchedRid(rid_assets) ==
    IF options.use_fallback_graph
    THEN try_get_matching_rid_with_fallback_graph(rid_assets,
             get_current_machine_rid(rid_fallback_graph, TRUE, env), rid_fallback_graph).out_rid
    ELSE try_get_matching_rid(rid_assets, env).out_rid

\* C7: after perform_rid_fallback every bucket map has at most one key; a key that is
\* left is the matched RID and its asset list is the one extracted, in the same order.
C7_AtMostOneBucketSurvives ==
    FrameworkDependentDone =>
        /\ DOMAIN m_rid_assets = DOMAIN rid_extracted
        /\ \A l \in DOMAIN m_rid_assets, i \in AssetTypeIdx :
              /\ Cardinality(DOMAIN m_rid_assets[l][i]) <= 1
              /\ \A r \in DOMAIN m_rid_assets[l][i] :
                    /\ r \in DOMAIN rid_extracted[l][i]
                    /\ r = MatchedRid(rid_extracted[l][i])
                    /\ m_rid_assets[l][i][r] = rid_extracted[l][i][r]

\* two RID buckets were extracted for a pair and one of them is left
C7_Witness ==
    /\ FrameworkDependentDone /\ Ran("perform_rid_fallback")
    /\ \E l \in DOMAIN m_rid_assets, i \in AssetTypeIdx :
          /\ Cardinality(DOMAIN rid_extracted[l][i]) = 2
          /\ Cardinality(DOMAIN m_rid_assets[l][i]) = 1

\* C8: in framework-dependent mode, for every library that is reconciled and every
\* category: when the RID-specific side that survived resolution is not empty the
\* entries of the pair are its assets, marked RID-specific, and none of the generic
\* bucket; when it is empty they are the generic bucket's assets.
C8_RidSpecificBeforeGeneric ==
    FrameworkDependentDone =>
        \A l \in LibraryKeys, i \in AssetTypeIdx :
            IF DOMAIN RidSide(l, i) # {}
            THEN /\ \E r \in DOMAIN RidSide(l, i) : EntryPaths(l, i) = Paths(RidSide(l, i)[r])
                 /\ \A k \in 1..Len(EntriesOf(l, i)) : EntriesOf(l, i)[k].is_rid_specific
            ELSE /\ EntryPaths(l, i) = Paths(GenericSide(l, i))
                 /\ \A k \in 1..Len(EntriesOf(l, i)) : ~EntriesOf(l, i)[k].is_rid_specific

\* one library has, in one category, a surviving RID bucket and a generic bucket, and in
\* another a failed fallback and a generic bucket
C8_Witness ==
    /\ FrameworkDependentDone
    /\ \E l \in LibraryKeys : \E i, i2 \in AssetTypeIdx :
          /\ DOMAIN RidSide(l, i) # {} /\ GenericSide(l, i) # <<>>
          /\ EntriesOf(l, i) # <<>>
          /\ l \in DOMAIN rid_extracted /\ DOMAIN rid_extracted[l][i2] # {}
          /\ DOMAIN RidSide(l, i2) = {} /\ GenericSide(l, i2) # <<>>
          /\ EntriesOf(l, i2) # <<>>

\* C9: in self-contained mode the RID-specific map stays empty (runtimeTargets is not
\* extracted, perform_rid_fallback is not run), the entries of every reconciled library
\* are its generic assets, and no entry is marked RID-specific.
C9_SelfContainedUsesGenericOnly ==
    SelfContainedDone =>
        /\ m_rid_assets = EmptyMap
        /\ ~Ran("process_runtime_targets") /\ ~Ran("perform_rid_fallback")
        /\ \A l \in LibraryKeys, i \in AssetTypeIdx : EntryPaths(l, i) = Paths(GenericSide(l, i))
        /\ \A i \in AssetTypeIdx : \A k \in 1..Len(m_deps_entries[i]) :
              ~m_deps_entries[i][k].is_rid_specific

\* the manifest declares runtimeTargets and the self-contained load produced entries
C9_Witness == SelfContainedDone /\ DeclaresRuntimeTargets /\ SomeEntries

\* C10: the library of every entry is a key of `libraries` and has assets: a library
\* with assets under `targets` and no entry in `libraries` produces no entry, and a
\* library of `libraries` with no assets produces none.
C10_EntriesOnlyForListedLibraries ==
    Done =>
        /\ \A i \in AssetTypeIdx : \A k \in 1..Len(m_deps_entries[i]) :
              /\ EntryKey(m_deps_entries[i][k]) \in LibraryKeys
              /\ EntryKey(m_deps_entries[i][k]) \in AssetLibs
        /\ \A l \in AssetLibs \ LibraryKeys : \A i \in AssetTypeIdx : EntriesOf(l, i) = <<>>
        /\ \A l \in LibraryKeys \ AssetLibs : \A i \in AssetTypeIdx : EntriesOf(l, i) = <<>>

\* a library with assets is missing from `libraries` while a listed one produced entries
C10_Witness ==
    /\ Done
    /\ AssetLibs \ LibraryKeys # {}
    /\ \E l \in LibraryKeys : \E i \in AssetTypeIdx : EntriesOf(l, i) # <<>>

----------------------------------------------------------------------------

\* the library key has an asset in some category of the RID-specific map or of the generic map
HasAssets(pv) ==
    \E i \in AssetTypeIdx :
        \/ \E r \in DOMAIN RidSide(pv, i) : RidSide(pv, i)[r] # <<>>
        \/ GenericSide(pv, i) # <<>>

\* C11: after a load, has_package(name, version) is true exactly when the key
\* name "/" version has a category that is not empty in the RID-specific map as
\* resolved or in the generic map; it is false for a library whose only assets were
\* RID buckets that failed fallback cleared.
C11_HasPackageIffAssets ==
    Done =>
        \A name \in Names, ver \in Versions :
            has_package(name, ver, m_rid_assets, m_assets) <=> HasAssets(name \o "/" \o ver)

\* library A/1 had RID buckets only, all were cleared, and B/2 still has assets
C11_Witness ==
    /\ FrameworkDependentDone
    /\ "A/1" \in DOMAIN rid_extracted /\ "A/1" \notin DOMAIN m_assets
    /\ \A i \in AssetTypeIdx : DOMAIN RidSide("A/1", i) = {}
    /\ ~has_package("A", "1", m_rid_assets, m_assets)
    /\ has_package("B", "2", m_rid_assets, m_assets)

NoUsableTargets ==
    \/ Json.targets.shape # "object"
    \/ ~has_key(Json.targets.members, Json.runtimeTarget.name)
    \/ at_key(Json.targets.members, Json.runtimeTarget.name).shape # "object"

NoUsableLibraries == Json.libraries.shape # "object"
NoUsableRuntimes == Json.runtimes.shape # "object"

\* the manifest is an object with a target name and lacks a usable section
LacksSection ==
    /\ deps_file.exists /\ deps_file.wellformed /\ Json.kind = "object"
    /\ runtime_target_name(Json).found
    /\ NoUsableTargets \/ NoUsableLibraries \/ NoUsableRuntimes

\* C13: when `targets`, `libraries` or `runtimes` is absent or no object (or the named
\* target is absent or no object) the load ends valid and the section counts as empty:
\* without usable `targets` both asset maps are empty, without usable `libraries` there
\* is no entry, without usable `runtimes` the graph built is empty.
C13_MissingSectionIsEmpty ==
    (Done /\ LacksSection) =>
        /\ m_valid
        /\ outcome = "returned"
        /\ NoUsableTargets => m_rid_assets = EmptyMap /\ m_assets = EmptyMap /\ NoEntries
        /\ NoUsableLibraries => NoEntries
        /\ (NoUsableRuntimes /\ mode = "self_contained" /\ options.use_fallback_graph) =>
               rid_fallback_graph = EmptyMap

\* the files the manifest declares for a library in a category, in declaration order:
\* under runtimeTargets with the RID given, or under the category's own member
DeclaredPackages(l) ==
    SelectSeq(target_packages(Json, Json.runtimeTarget.name), LAMBDA pk : pk.key = l)

DeclaredRid(l, i, rid) ==
    IF DeclaredPackages(l) = <<>> THEN <<>>
    ELSE LET files == SelectSeq(DeclaredPackages(l)[1].runtimeTargets,
                                LAMBDA f : f.rid = rid /\ f.assetType = s_known_asset_types[i])
         IN [k \in 1..Len(files) |-> files[k].key]

DeclaredGeneric(l, i) ==
    IF DeclaredPackages(l) = <<>> THEN <<>> ELSE DeclaredPackages(l)[1].files[i]

\* the paths a library contributes to a category: of the RID bucket left, else generic
DeclaredFor(l, i) ==
    IF mode = "framework_dependent" /\ DOMAIN RidSide(l, i) # {}
    THEN DeclaredRid(l, i, CHOOSE r \in DOMAIN RidSide(l, i) : TRUE)
    ELSE DeclaredGeneric(l, i)

\* <<library key, path>> of the libraries k.. of `libraries`, in document order
RECURSIVE InDocumentOrder(_, _)
InDocumentOrder(k, i) ==
    IF k > Len(Json.libraries.members) THEN <<>>
    ELSE LET l == Json.libraries.members[k].key
         IN [j \in 1..Len(DeclaredFor(l, i)) |-> <<l, DeclaredFor(l, i)[j]>>]
            \o InDocumentOrder(k + 1, i)

EntryOrder(i) ==
    [k \in 1..Len(m_deps_entries[i]) |->
        <<EntryKey(m_deps_entries[i][k]), m_deps_entries[i][k].asset.relative_path>>]

\* C14: in every category the entries follow the document order of `libraries`, and
\* within one library the declaration order of its files in the manifest; nothing is
\* reordered, dropped as a duplicate or sorted.
C14_EntriesInDocumentOrder ==
    Done => \A i \in AssetTypeIdx : EntryOrder(i) = InDocumentOrder(1, i)

\* `libraries` lists B/2 before A/1 while `targets` lists A/1 first; B/2 has two files
\* in a category and A/1 has one
C14_Witness ==
    /\ Done
    /\ \E i \in AssetTypeIdx :
          /\ Len(m_deps_entries[i]) = 3
          /\ EntryKey(m_deps_entries[i][1]) = "B/2"
          /\ EntryKey(m_deps_entries[i][2]) = "B/2"
          /\ m_deps_entries[i][1].asset.relative_path # m_deps_entries[i][2].asset.relative_path
          /\ EntryKey(m_deps_entries[i][3]) = "A/1"

\* C15: a load is deterministic: the second load of the same manifest, in the same
\* mode, with the same host RID, environment override and graph, leaves the entry
\* sequences of the first in every category, whatever order the hash maps iterate in.
C15_LoadIsDeterministic ==
    [][pc' = "again" => m_deps_entries' = m_deps_entries]_vars

\* the second load ran under the other iteration order, on a pair for which two RID
\* buckets were extracted, and produced a RID-specific entry
C15_Witness ==
    /\ pc = "again"
    /\ hash_order # RidOrder
    /\ \E l \in DOMAIN rid_extracted, i \in AssetTypeIdx :
          /\ Cardinality(DOMAIN rid_extracted[l][i]) = 2
          /\ \E k \in 1..Len(m_deps_entries[i]) : m_deps_entries[i][k].is_rid_specific

\* C16: in static-list mode, when the environment override is set and is a key of the
\* bucket map, the override's bucket is the one selected and the only one kept,
\* whichever RIDs of the static list are keys too and wherever the override stands in
\* the list, or if it is not in it.
C16_OverrideWinsInStaticMode ==
    (Done /\ ~options.use_fallback_graph
          /\ env.rid_env # "" /\ env.rid_env \in DOMAIN call.rid_assets) =>
        /\ ret.found
        /\ ret.out_rid = env.rid_env
        /\ DOMAIN ret.rid_assets = {env.rid_env}
        /\ ret.rid_assets[env.rid_env] = call.rid_assets[env.rid_env]

\* the override is not in the static list, the first RID of the list is a bucket key
\* too, and the override's bucket is selected
C16_Witness ==
    /\ Done /\ ~options.use_fallback_graph
    /\ env.rid_env = "custom-rid"
    /\ \A k \in 1..Len(s_host_rids) : s_host_rids[k] # env.rid_env
    /\ {"custom-rid", s_host_rids[1], "win-x64"} \subseteq DOMAIN call.rid_assets
    /\ ret.found /\ ret.out_rid = "custom-rid"

AllEntries == UNION {{m_deps_entries[i][k] : k \in 1..Len(m_deps_entries[i])} : i \in AssetTypeIdx}

\* the file name of a path without its directories and its extension
Stem(path) == get_filename_without_ext(path)

EndsInMarker(name) == Len(name) >= 3 /\ SubSeq(name, Len(name) - 2, Len(name)) = ".ni"

\* the paths the manifest declares for the library of an entry in the entry's category
DeclaredPathsOf(entry) ==
    LET paths == DeclaredFor(EntryKey(entry), entry.asset_type)
    IN {paths[k] : k \in 1..Len(paths)}

\* C17: an entry whose file name without extension ends in ".ni" has that name with
\* the marker taken off as its asset name (lib/Foo.ni.dll gives Foo), for RID-specific
\* runtime assets and for generic assets, and its relative_path is the declared path.
C17_NativeImageMarkerStripped ==
    Done =>
        \A entry \in AllEntries :
            /\ entry.asset.relative_path \in DeclaredPathsOf(entry)
            /\ EndsInMarker(Stem(entry.asset.relative_path)) =>
                   entry.asset.name \o ".ni" = Stem(entry.asset.relative_path)

\* a RID-specific runtime entry for rt/a.ni.dll and a generic one for lib/A.ni.dll
C17_Witness ==
    /\ FrameworkDependentDone
    /\ \E e1, e2 \in AllEntries :
          /\ e1.is_rid_specific /\ e1.asset_type = 0
          /\ e1.asset.relative_path = "rt/a.ni.dll" /\ e1.asset.name = "a"
          /\ ~e2.is_rid_specific
          /\ e2.asset.relative_path = "lib/A.ni.dll" /\ e2.asset.name = "A"

\* what holds of the validity state in every state of a loader
ValidityState ==
    /\ pc = "new" => ~m_valid
    /\ (Done /\ m_valid) => ~deps_file.exists \/ parse_result = "true"
    /\ (Done /\ ~deps_file.exists) => steps = <<"deps_file_exists">>
    /\ (Done /\ parse_result = "false") =>
           /\ ~m_valid
           /\ \A step \in ExtractionSteps : ~Ran(step)
    /\ (Done /\ ~m_valid) => NoEntries /\ NoPackages

\* C18: validity only moves forward: it starts false, becomes true only for an absent
\* file or a successful parse, and is never set back; after the absent-file or the
\* parse-failure outcome no later step of the load runs, and a loader left invalid
\* exposes no entries and no packages.
C18_ValidityOnlyMovesForward ==
    /\ [][m_valid => m_valid']_vars
    /\ []ValidityState

\* a well-formed object manifest that declares assets was refused and left invalid
C18_Witness ==
    /\ Done /\ deps_file.exists /\ deps_file.wellformed /\ Json.kind = "object"
    /\ parse_result = "false" /\ ~m_valid
    /\ DeclaresRuntimeTargets

\* C19: the shared fallback graph is written at most once: a step that changes it is a
\* self-contained load with use_fallback_graph that found it empty; a framework-
\* dependent load, with its perform_rid_fallback and get_current_machine_rid, leaves
\* its keys and lists as they were.
C19_GraphWrittenAtMostOnce ==
    [][rid_fallback_graph' # rid_fallback_graph =>
          /\ mode' = "self_contained"
          /\ options.use_fallback_graph
          /\ rid_fallback_graph = EmptyMap]_vars

\* a self-contained load with use_fallback_graph has built the graph from `runtimes`
C19_Witness ==
    /\ pc = "done" /\ mode = "self_contained"
    /\ options.use_fallback_graph
    /\ rid_fallback_graph = GraphWin
    /\ Ran("post_process")

ComposedRid ==
    IF env.os_rid_platform = "" THEN "" ELSE env.os_rid_platform \o "-" \o CURRENT_ARCH_NAME
BaselineRid == FALLBACK_HOST_OS \o "-" \o CURRENT_ARCH_NAME

\* C21: in graph mode without an environment override the host RID is the OS platform
\* name, "-" and the architecture; when that RID is empty or is no key of the graph it
\* is replaced by the family baseline, which is used as it is even when the graph does
\* not have it either; every library and category is resolved with that one host RID.
C21_HostRidIsComposedOrBaseline ==
    (Done /\ Ran("perform_rid_fallback") /\ options.use_fallback_graph /\ env.rid_env = "") =>
        LET expected == IF ComposedRid = "" \/ ComposedRid \notin DOMAIN rid_fallback_graph
                        THEN BaselineRid ELSE ComposedRid
        IN /\ call.host_rid = expected
           /\ \A l \in DOMAIN rid_extracted, i \in AssetTypeIdx :
                 m_rid_assets[l][i] = filter_rid_assets(rid_extracted[l][i], options, expected,
                                                        rid_fallback_graph, env)

\* the platform RID ubuntu-x64 and the baseline linux-x64 are both missing from the
\* graph; two pairs that had both buckets are left with the baseline's
C21_Witness ==
    /\ Done /\ Ran("perform_rid_fallback") /\ options.use_fallback_graph
    /\ env.rid_env = "" /\ env.os_rid_platform = "ubuntu"
    /\ rid_fallback_graph = GraphWin
    /\ call.host_rid = "linux-x64"
    /\ \A l \in Libs :
          /\ {"ubuntu-x64", "linux-x64"} \subseteq DOMAIN rid_extracted[l][0]
          /\ DOMAIN m_rid_assets[l][0] = {"linux-x64"}


\* the RIDs one hop from the host RID: the host RID and the RIDs its own list names
OneHopRids ==
    {call.host_rid}
    \cup (IF call.host_rid \in DOMAIN call.graph
          THEN {call.graph[call.host_rid][j] : j \in 1..Len(call.graph[call.host_rid])}
          ELSE {})

\* a RID selected is one hop from the host RID, and with no bucket one hop away
\* nothing is selected and the bucket map is cleared
OneHopOnly ==
    Done =>
        /\ ret.found => ret.out_rid \in OneHopRids \cap DOMAIN call.rid_assets
        /\ OneHopRids \cap DOMAIN call.rid_assets = {} =>
               ~ret.found /\ ret.rid_assets = EmptyMap

\* the scan never leaves the host RID's own list
ScanBounded ==
    pc = "scan" => /\ call.host_rid \in DOMAIN call.graph
                   /\ iter \in 1..(Len(call.graph[call.host_rid]) + 1)

\* C22: RID resolution terminates for every graph, cyclic ones and chains that never
\* reach "any" included, and it is one-hop only: the candidates for host RID h are h
\* and the RIDs listed in graph[h]; a bucket whose RID is reachable only through
\* another RID's list is not selected and the category resolves to no assets.
C22_TerminatesAndOneHopOnly ==
    /\ []OneHopOnly
    /\ []ScanBounded
    /\ <>Done

\* win-x64 lists win, win lists any and win-x64 again (a cycle), the only bucket is
\* under any: the scan ended with nothing selected
C22_Witness ==
    /\ Done
    /\ call.host_rid = "win-x64"
    /\ DOMAIN call.graph = {"win-x64", "win"}
    /\ call.graph["win-x64"] = <<"win">>
    /\ call.graph["win"] = <<"any", "win-x64">>
    /\ DOMAIN call.rid_assets = {"any"}
    /\ ~ret.found /\ ret.rid_assets = EmptyMap
    /\ iter = 2


\* the priority list of this build: the OS of the build, the current OS, then the
\* family "unix", each arch-qualified first, and "any" last
StaticPriority ==
    <<"ubuntu-x64", "ubuntu", "linux-x64", "linux", "unix-x64", "unix", "any">>

\* C23: in static-list mode, when no environment override matches a bucket key, the
\* RID selected is the first element of the compile-time list (arch-qualified before
\* unqualified, narrower family before broader, "unix" before "any", "any" last) that
\* is a bucket key; when no element is a key nothing is selected and the bucket map is
\* cleared.
C23_FirstOfStaticListWins ==
    (Done /\ ~options.use_fallback_graph
          /\ ~(env.rid_env # "" /\ env.rid_env \in DOMAIN call.rid_assets)) =>
        LET hits == {k \in 1..Len(StaticPriority) : StaticPriority[k] \in DOMAIN call.rid_assets}
        IN IF hits = {}
           THEN ~ret.found /\ ret.rid_assets = EmptyMap
           ELSE \E k \in hits :
                   /\ \A j \in hits : k <= j
                   /\ ret.found
                   /\ ret.out_rid = StaticPriority[k]
                   /\ DOMAIN ret.rid_assets = {StaticPriority[k]}
                   /\ ret.rid_assets[StaticPriority[k]] = call.rid_assets[StaticPriority[k]]

\* the override is set and is no bucket key; linux, unix-x64, any and a RID that is
\* not in the list are: linux is selected
C23_Witness ==
    /\ Done /\ ~options.use_fallback_graph
    /\ env.rid_env = "custom-rid"
    /\ DOMAIN call.rid_assets = {"linux", "unix-x64", "any", "win-x64"}
    /\ ret.found /\ ret.out_rid = "linux"
    /\ DOMAIN ret.rid_assets = {"linux"}


\* the assets the loader holds for a library in a category, as extracted
ExtractedAssets(l, i) ==
    {GenericSide(l, i)[k] : k \in 1..Len(GenericSide(l, i))}
    \cup UNION {{RidSide(l, i)[r][k] : k \in 1..Len(RidSide(l, i)[r])} : r \in DOMAIN RidSide(l, i)}

DeclaredRuntimeTargets(l) ==
    IF DeclaredPackages(l) = <<>> THEN <<>> ELSE DeclaredPackages(l)[1].runtimeTargets

\* the entry is an object with a string `assetType` that names category i, in any
\* letter case, and a string `rid`
AcceptedAs(file, i) ==
    /\ file.shape = "object"
    /\ file.type_shape = "string"
    /\ to_lower(file.assetType) = s_known_asset_types[i]
    /\ file.rid_shape = "string"

\* the paths of the accepted entries of a library for a category and a RID, in order
AcceptedPaths(l, i, rid) ==
    LET files == SelectSeq(DeclaredRuntimeTargets(l), LAMBDA f : AcceptedAs(f, i) /\ f.rid = rid)
    IN [k \in 1..Len(files) |-> files[k].key]

\* the bucket extracted for a library, a category and a RID, <<>> when there is none
ExtractedBucket(l, i, rid) ==
    IF l \in DOMAIN rid_extracted /\ rid \in DOMAIN rid_extracted[l][i]
    THEN rid_extracted[l][i][rid] ELSE <<>>

\* the number of assets in all the buckets extracted
RECURSIVE SumLen(_, _)
SumLen(f, S) ==
    IF S = {} THEN 0 ELSE LET x == CHOOSE y \in S : TRUE IN Len(f[x]) + SumLen(f, S \ {x})
ExtractedCount ==
    LET triples == {t \in Libs \X AssetTypeIdx \X (ExtractRids \cup {""}) : TRUE}
    IN SumLen([t \in triples |-> ExtractedBucket(t[1], t[2], t[3])], triples)
AcceptedCount ==
    LET pairs == {p \in Libs \X (1..Len(RtFileNames)) : p[2] <= Len(DeclaredRuntimeTargets(p[1]))}
    IN Cardinality({p \in pairs :
           \E i \in AssetTypeIdx : AcceptedAs(DeclaredRuntimeTargets(p[1])[p[2]], i)})

\* C25: RID-specific extraction appends a runtimeTargets entry if and only if it has a
\* string `assetType` matching one of the three category names and a string `rid`; an
\* accepted entry is appended once, to the bucket of its own library, the matched
\* category and the literal `rid`, so every asset extracted belongs to one (library,
\* category) pair; every other entry is skipped and the rest is not affected.
C25_ExtractsExactlyAcceptedEntries ==
    (Done /\ Ran("process_runtime_targets")) =>
        /\ \A l \in Libs, i \in AssetTypeIdx, rid \in ExtractRids \cup {""} :
              /\ Paths(ExtractedBucket(l, i, rid)) = AcceptedPaths(l, i, rid)
              /\ (l \in DOMAIN rid_extracted /\ rid \in DOMAIN rid_extracted[l][i]) =>
                     AcceptedPaths(l, i, rid) # <<>>
        /\ \A l \in DOMAIN rid_extracted :
              /\ l \in Libs
              /\ \A i \in AssetTypeIdx : DOMAIN rid_extracted[l][i] \subseteq ExtractRids
        /\ ExtractedCount = AcceptedCount

\* library A/1 declares an entry without a string rid and then a NATIVE entry for win:
\* the only asset extracted is the second one, in the native bucket of A/1 under win
C25_Witness ==
    /\ Done /\ Ran("process_runtime_targets")
    /\ Len(DeclaredRuntimeTargets("A/1")) = 2
    /\ DeclaredRuntimeTargets("A/1")[1].rid_shape # "string"
    /\ DeclaredRuntimeTargets("A/1")[2].assetType = "NATIVE"
    /\ DeclaredRuntimeTargets("A/1")[2].rid = "win"
    /\ Paths(ExtractedBucket("A/1", 2, "win")) = <<DeclaredRuntimeTargets("A/1")[2].key>>
    /\ ExtractedCount = 1


\* the members of `runtimes`, and the strings of a fallback array in declaration order
RuntimesMembers == Json.runtimes.members
GraphBuilt == pc \in {"parsed", "done"} /\ Ran("populate_rid_fallback_graph")
StringsOf(elems) ==
    LET strings == SelectSeq(elems, LAMBDA x : x.is_string)
    IN [k \in 1..Len(strings) |-> strings[k].str]

\* C26: the graph built from `runtimes` maps each RID key whose value is an array to
\* the string elements of the array in declaration order: elements that are no strings
\* are dropped and the others keep their relative order; a malformed entry does not
\* abort the build and does not remove what is built for the other keys.
C26_GraphHoldsStringElementsInOrder ==
    GraphBuilt =>
        \A k \in 1..Len(RuntimesMembers) :
            RuntimesMembers[k].is_array =>
                /\ RuntimesMembers[k].key \in DOMAIN rid_fallback_graph
                /\ rid_fallback_graph[RuntimesMembers[k].key] = StringsOf(RuntimesMembers[k].elems)

\* the first key has a value that is no array, the array of the second holds a value
\* that is no string before a string: the second key maps to that string
C26_Witness ==
    /\ GraphBuilt
    /\ Len(RuntimesMembers) = 2
    /\ ~RuntimesMembers[1].is_array
    /\ RuntimesMembers[2].is_array
    /\ Len(RuntimesMembers[2].elems) = 2
    /\ ~RuntimesMembers[2].elems[1].is_string
    /\ RuntimesMembers[2].elems[2].is_string
    /\ rid_fallback_graph[RuntimesMembers[2].key] = <<RuntimesMembers[2].elems[2].str>>

\* the OS-composed RID is a key of `runtimes` whose value is no array
PlatformKeyWithoutArray ==
    \E k \in 1..Len(RuntimesMembers) :
        RuntimesMembers[k].key = ComposedRid /\ ~RuntimesMembers[k].is_array

\* C27: every key of `runtimes` is a key of the graph, a key whose value is no array
\* with an empty fallback list; such a RID counts as present when the host RID is
\* determined (the baseline does not replace it) and, having no fallbacks, resolves
\* only on an exact bucket match.
C27_EveryRuntimesKeyIsGraphKey ==
    /\ GraphBuilt =>
          /\ DOMAIN rid_fallback_graph = {RuntimesMembers[k].key : k \in 1..Len(RuntimesMembers)}
          /\ \A k \in 1..Len(RuntimesMembers) :
                ~RuntimesMembers[k].is_array => rid_fallback_graph[RuntimesMembers[k].key] = <<>>
    /\ (Done /\ GraphBuilt /\ Ran("perform_rid_fallback") /\ env.rid_env = ""
             /\ PlatformKeyWithoutArray) =>
          \A l \in DOMAIN rid_extracted, i \in AssetTypeIdx :
              IF ComposedRid \in DOMAIN rid_extracted[l][i]
              THEN /\ DOMAIN m_rid_assets[l][i] = {ComposedRid}
                   /\ m_rid_assets[l][i][ComposedRid] = rid_extracted[l][i][ComposedRid]
              ELSE m_rid_assets[l][i] = EmptyMap

\* ubuntu-x64 has a value that is no array and the graph knows the baseline linux-x64
\* too; the library has buckets under linux-x64 and any only: nothing is selected
C27_Witness ==
    /\ Done /\ GraphBuilt /\ Ran("perform_rid_fallback")
    /\ PlatformKeyWithoutArray
    /\ rid_fallback_graph[ComposedRid] = <<>>
    /\ BaselineRid \in DOMAIN rid_fallback_graph
    /\ "A/1" \in DOMAIN rid_extracted
    /\ DOMAIN rid_extracted["A/1"][0] = {"linux-x64", "any"}
    /\ m_rid_assets["A/1"][0] = EmptyMap


CallbackCalls == {k \in 1..Len(steps) : steps[k] = "post_process"}

\* load was given a callback: create_for_self_contained with use_fallback_graph
HasCallback == mode = "self_contained" /\ options.use_fallback_graph

\* the file holds a manifest that parses: a well-formed text whose root is an object
ManifestParses == deps_file.exists /\ deps_file.wellformed /\ Json.kind = "object"

\* C29: the callback passed to load runs exactly once when the file exists and parses,
\* after extraction and reconciliation have produced the entries; it never runs when
\* the file is absent or fails to parse, so in create_for_self_contained with
\* use_fallback_graph the shared graph stays empty in those two cases, and that load's
\* own resolution never reads the graph.
C29_CallbackOnceAfterReconcile ==
    Done =>
        /\ (ManifestParses /\ HasCallback) =>
               /\ Cardinality(CallbackCalls) = 1
               /\ steps[Len(steps)] = "post_process"
               /\ Ran("process_targets") /\ Ran("reconcile")
        /\ ~ManifestParses =>
               /\ CallbackCalls = {}
               /\ HasCallback => rid_fallback_graph = EmptyMap
        /\ ~HasCallback => CallbackCalls = {}
        /\ mode = "self_contained" => ~Ran("perform_rid_fallback")


\* C30: parse_file skips a leading UTF-8 byte-order mark: when the file has at least
\* 3 bytes and begins with EF BB BF the parser is given the data from offset 3 with
\* the size less 3; for every other file, one that shares only the first two bytes of
\* the mark included, it is given the data from offset 0 with the full size.
C30_LeadingBomIsSkipped ==
    Done =>
        IF Len(call.data) >= 3 /\ SubSeq(call.data, 1, 3) = Utf8Bom
        THEN ret = [offset |-> 3, size |-> Len(call.data) - 3]
        ELSE ret = [offset |-> 0, size |-> Len(call.data)]

====
